---- MODULE Spec2Model ----
(***************************************************************************)
(* Model of the resumable batch-crawl controller of Prudeus-Database:      *)
(* ProgressTracker and main() of batch_scraper.py, with the crawl unit     *)
(* LawPhilScraper.scrape_year of scraper.py it drives.                     *)
(*                                                                         *)
(* Python's None is modelled by None (0) for a year and by NoMonth for a   *)
(* month; list indices are 1-based here and 0-based in the source.         *)
(*                                                                         *)
(* A second part models the Case Record: LawPhilScraper.parse_case and     *)
(* format_case_content of scraper.py, which build it from a detail page,   *)
(* and CaseValidator.validate_case of validate_cases.py, which checks it.  *)
(* A string is a sequence of one-character strings where its characters    *)
(* matter, and a sequence of one piece where only its being empty does.    *)
(***************************************************************************)
EXTENDS Integers, Sequences, FiniteSets, TLC

VARIABLES
    progress,          \* tracker.progress of the running process
    file,              \* the progress file: NoFile or <<content>>
    disk,              \* record files on disk: <<year, month, candidate>>
    pc,                \* position of the controller process in main()
    args,              \* parsed command line of the running process
    start_year,        \* main(): local start_year
    start_month,       \* main(): local start_month
    year,              \* main(): loop variable of the year loop
    month_idx,         \* main(): position of the month loop in months
    year_total_cases,  \* main(): local year_total_cases
    month_cases,       \* main(): local month_cases
    links,             \* scrape_year(): len(cases) of the listing
    cand,              \* scrape_year(): index i of the candidate loop
    exitStatus,        \* exit status of the process once pc = "exited"
    runs,              \* number of processes started so far
    \* history variables (observers, never read by the program)
    interruptedAt,     \* pc at which SIGINT reached the current process
    crawled,           \* units scrape_year was called for in this process
    errored,           \* units whose crawl raised a non-interrupt error
    listing,           \* outcome of the current month's listing fetch
    monthStartFile,    \* progress file as it was when the month started
    marked,            \* units marked by mark_month_complete since the
                       \* last mark_year_complete (or reset)
    lastCall,          \* the last tracker call: <<name, year, month>>
    before,            \* tracker.progress before the last tracker call
    repeated,          \* the last tracker call repeated the one before it
    resumed,           \* set when a run resumes an interrupted one
    attempts,          \* candidates processed in the current month's crawl:
                       \* <<candidate, outcome>>, in the order processed
    faults,            \* failed writes of the progress file so far
    \* one detail page, the record built from it, the validator's verdict
    page,              \* <<>> or <<the text nodes of a fetched detail page>>
    record,            \* <<>> or <<a record file: its document, its place>>
    verdict,           \* <<>> or <<what validate_case returned for it>>
    \* one use of an extractor or of a batch job over the record files
    input,             \* <<>> or <<what it was given>>
    output             \* what its runs returned or left, in order

recVars == <<page, record, verdict>>

toolVars == <<input, output>>

vars == <<progress, file, disk, pc, args, start_year, start_month, year,
          month_idx, year_total_cases, month_cases, links, cand, exitStatus,
          runs, interruptedAt, crawled, errored, listing, monthStartFile,
          marked, lastCall, before, repeated, resumed, attempts, faults, recVars, toolVars>>

ctlVars == <<pc, args, start_year, start_month, year, month_idx,
             year_total_cases, month_cases, links, cand, exitStatus, runs,
             interruptedAt, crawled, errored, listing, monthStartFile,
             resumed, disk, attempts, faults, recVars, toolVars>>

(***************************** bounds **************************************)
NumYears == 2          \* years the command line may name: FirstYear..+1
MaxRuns == 1           \* processes started in one behaviour of Spec
Restarts == 2          \* further processes in a behaviour of SpecRestarts
MaxLinks == 1          \* candidate links on a busy month's listing page
MaxFaults == 1         \* failed writes of the progress file in SpecFaults
NumMonthArgs == 2      \* months a direct tracker call may name

(************************* program constants *******************************)
None == 0
NoMonth == "None"
\* The progress file: NoFile while it does not exist, else <<its content>>.
NoFile == <<>>
FirstYear == 1901
DefaultEndYear == 1995
MonthEnd == 12
ExitOK == 0

months ==
    <<"january", "february", "march", "april", "may", "june",
      "july", "august", "september", "october", "november", "december">>

Years == FirstYear .. (FirstYear + NumYears - 1)
MonthArgs == {months[i] : i \in 1..NumMonthArgs}
\* The remote site: only these months' listings carry candidate links.
BusyMonths == {"august"}
\* Exit statuses of a process killed by an unhandled KeyboardInterrupt
\* (1 before Python 3.8, death by SIGINT, seen as 130, since).
CrashStatuses == {1, 130}
\* Exit status of a process that ends with the traceback of an exception
\* nothing caught.
Traceback == {1}
\* Exit status, as a shell reports it, of a process ended by SIGKILL.
Killed == {137}

(***************************** helpers *************************************)
IsIn(x, s) == \E i \in DOMAIN s : s[i] = x

Range(s) == {s[i] : i \in DOMAIN s}

\* list.index(m) + 1
MonthIndex(m) == CHOOSE i \in DOMAIN months : months[i] = m

RECURSIVE InsertSorted(_, _)
InsertSorted(x, s) ==
    IF s = <<>> THEN <<x>>
    ELSE IF x <= Head(s) THEN <<x>> \o s
    ELSE <<Head(s)>> \o InsertSorted(x, Tail(s))

\* list.sort()
RECURSIVE Sort(_)
Sort(s) == IF s = <<>> THEN <<>> ELSE InsertSorted(Head(s), Sort(Tail(s)))

(************************** ProgressTracker ********************************)
EmptyProgress ==
    [completed_years |-> <<>>, current_year |-> None,
     completed_months |-> <<>>, last_updated |-> "None",
     total_cases_scraped |-> 0]

\* What is left of the progress file when a write to it is cut short:
\* open(path, 'w') of line 36 has emptied it and json.dump has not, or not
\* completely, filled it again. It is no JSON document.
Truncated == [truncated |-> TRUE]

\* json.load of line 24 raises json.JSONDecodeError on such a file.
load_raises(f) == f = <<Truncated>>

\* load_progress where json.load returns.
load_progress(f) == IF f # NoFile THEN f[1] ELSE EmptyProgress

\* save_progress stamps last_updated and writes the whole state; the
\* result is both the new in-memory state and the new file content.
save_progress(p) == [p EXCEPT !.last_updated = "timestamp"]

\* Mutant: mark_year_complete without the sort() of line 43.
mark_year_complete_unsorted(p, y) ==
    LET added == IF ~IsIn(y, p.completed_years)
                 THEN Append(p.completed_years, y)
                 ELSE p.completed_years
    IN save_progress([p EXCEPT !.completed_years = added,
                               !.current_year = None,
                               !.completed_months = <<>>])

\* Mutant: mark_year_complete without lines 44-45, which leaves the year
\* just completed as current_year and its months in completed_months.
mark_year_complete_keeps_months(p, y) ==
    LET added == IF ~IsIn(y, p.completed_years)
                 THEN Sort(Append(p.completed_years, y))
                 ELSE p.completed_years
    IN save_progress([p EXCEPT !.completed_years = added])

\* Mutant: mark_year_complete assigning [year] instead of appending to
\* completed_years.
mark_year_complete_replaces(p, y) ==
    save_progress([p EXCEPT !.completed_years = <<y>>,
                            !.current_year = None,
                            !.completed_months = <<>>])

mark_year_complete(p, y) ==
    LET added == IF ~IsIn(y, p.completed_years)
                 THEN Sort(Append(p.completed_years, y))
                 ELSE p.completed_years
    IN save_progress([p EXCEPT !.completed_years = added,
                               !.current_year = None,
                               !.completed_months = <<>>])

\* Mutant: mark_month_complete without the membership test of line 51.
mark_month_complete_always_appends(p, y, m) ==
    save_progress([p EXCEPT !.current_year = y,
                            !.completed_months = Append(@, m)])

mark_month_complete(p, y, m) ==
    LET added == IF ~IsIn(m, p.completed_months)
                 THEN Append(p.completed_months, m)
                 ELSE p.completed_months
    IN save_progress([p EXCEPT !.current_year = y,
                               !.completed_months = added])

is_year_complete(p, y) == IsIn(y, p.completed_years)

is_month_complete(p, y, m) ==
    p.current_year = y /\ IsIn(m, p.completed_months)

\* Mutant: get_resume_point scanning range(start_year, end_year), which
\* leaves out end_year.
RECURSIVE get_resume_point_skips_end(_, _, _)
get_resume_point_skips_end(p, s, e) ==
    IF s >= e THEN <<None, NoMonth>>
    ELSE IF ~is_year_complete(p, s) THEN <<s, "january">>
    ELSE get_resume_point_skips_end(p, s + 1, e)

\* Mutant: get_resume_point with the test of line 68 inverted.
RECURSIVE get_resume_point_first_complete(_, _, _)
get_resume_point_first_complete(p, s, e) ==
    IF s > e THEN <<None, NoMonth>>
    ELSE IF is_year_complete(p, s) THEN <<s, "january">>
    ELSE get_resume_point_first_complete(p, s + 1, e)

RECURSIVE get_resume_point(_, _, _)
get_resume_point(p, s, e) ==
    IF s > e THEN <<None, NoMonth>>
    ELSE IF ~is_year_complete(p, s) THEN <<s, "january">>
    ELSE get_resume_point(p, s + 1, e)

count_cases_in_directory(d, y, m) ==
    Cardinality({f \in d : f[1] = y /\ f[2] = m})

(***************************** the site ************************************)
SiteLinks(y, m) == IF m \in BusyMonths THEN MaxLinks ELSE 0

(************************* history bookkeeping *****************************)
NoResume == [year |-> None, recorded |-> {}, done |-> {}]
NoCall == <<"none", None, NoMonth>>

\* pcs at which the controller is inside the processing of one year
InYearPcs == {"month", "listing", "case", "count", "addtotal", "yeardone"}
\* pcs covered by the try block of main() (lines 200-212)
TryPcs == {"listing", "case", "count", "addtotal"}
\* pcs at which scrape_year is executing
CrawlPcs == {"listing", "case"}
RunningPcs == {"year"} \cup InYearPcs

Init ==
    /\ progress = EmptyProgress
    /\ file = NoFile
    /\ disk = {}
    /\ pc = "idle"
    /\ args = [start_year |-> FirstYear, end_year |-> FirstYear,
               resume |-> FALSE]
    /\ start_year = FirstYear
    /\ start_month = "january"
    /\ year = FirstYear
    /\ month_idx = 1
    /\ year_total_cases = 0
    /\ month_cases = 0
    /\ links = 0
    /\ cand = 1
    /\ exitStatus = ExitOK
    /\ runs = 0
    /\ interruptedAt = "none"
    /\ crawled = {}
    /\ errored = {}
    /\ listing = "none"
    /\ monthStartFile = NoFile
    /\ marked = {}
    /\ lastCall = NoCall
    /\ before = EmptyProgress
    /\ repeated = FALSE
    /\ resumed = NoResume
    /\ attempts = <<>>
    /\ faults = 0
    /\ page = <<>>
    /\ record = <<>>
    /\ verdict = <<>>
    /\ input = <<>>
    /\ output = <<>>

(********************* direct calls of the tracker *************************)
\* A client calls tracker.mark_month_complete(y, m).
CallMarkMonth(y, m) ==
    /\ pc = "idle"
    /\ progress' = mark_month_complete(progress, y, m)
    /\ file' = <<progress'>>
    /\ marked' = marked \cup {<<y, m>>}
    /\ before' = progress
    /\ repeated' = (lastCall = <<"month", y, m>>)
    /\ lastCall' = <<"month", y, m>>
    /\ UNCHANGED ctlVars

\* A client calls tracker.mark_year_complete(y).
CallMarkYear(y) ==
    /\ pc = "idle"
    /\ progress' = mark_year_complete(progress, y)
    /\ file' = <<progress'>>
    /\ marked' = {}
    /\ before' = progress
    /\ repeated' = (lastCall = <<"year", y, NoMonth>>)
    /\ lastCall' = <<"year", y, NoMonth>>
    /\ UNCHANGED ctlVars

NextTracker ==
    \/ \E y \in Years, m \in MonthArgs : CallMarkMonth(y, m)
    \/ \E y \in Years : CallMarkYear(y)

SpecTracker == Init /\ [][NextTracker]_vars

(*************** the tracker and the life of its process *******************)
\* Mutant: a load that answers a file it cannot parse with the empty state.
OnCorruptFile_silent_reset ==
    /\ progress' = EmptyProgress
    /\ pc' = "idle"
    /\ exitStatus' = ExitOK

\* Lines 18 and 22-24 on a file json.load cannot parse: JSONDecodeError
\* leaves load_progress and __init__; no caller catches it, so no tracker
\* comes to exist and the process ends with a traceback.
OnCorruptFile ==
    /\ pc' = "exited"
    /\ exitStatus' \in Traceback
    /\ UNCHANGED progress

\* ProgressTracker(progress_file) in a new process: __init__ loads the file.
Construct ==
    /\ pc \in {"idle", "exited"}
    /\ IF load_raises(file)
       THEN OnCorruptFile
       ELSE /\ progress' = load_progress(file)
            /\ pc' = "idle"
            /\ exitStatus' = ExitOK
    /\ before' = progress
    /\ repeated' = FALSE
    /\ lastCall' = <<"load", None, NoMonth>>
    /\ UNCHANGED <<file, marked, disk, args, start_year, start_month, year,
                   month_idx, year_total_cases, month_cases, links, cand,
                   runs, interruptedAt, crawled, errored, listing,
                   monthStartFile, resumed, attempts, faults, recVars, toolVars>>

\* The process that holds the tracker is ended abruptly (SIGKILL, power
\* loss). When that happens inside save_progress, between open(path, 'w')
\* and the end of json.dump (lines 36-37), the state has been changed in
\* memory and the file is left cut short (torn); anywhere else the file
\* stays as the last save left it.
KillTracker ==
    /\ pc = "idle"
    /\ \E torn \in BOOLEAN :
          IF torn
          THEN /\ \E y \in Years, m \in MonthArgs :
                     progress' \in {mark_month_complete(progress, y, m),
                                    mark_year_complete(progress, y)}
               /\ file' = <<Truncated>>
          ELSE UNCHANGED <<progress, file>>
    /\ pc' = "exited"
    /\ exitStatus' \in Killed
    /\ before' = progress
    /\ repeated' = FALSE
    /\ lastCall' = <<"killed", None, NoMonth>>
    /\ UNCHANGED <<marked, disk, args, start_year, start_month, year,
                   month_idx, year_total_cases, month_cases, links, cand,
                   runs, interruptedAt, crawled, errored, listing,
                   monthStartFile, resumed, attempts, faults, recVars, toolVars>>

NextTrackerIO ==
    \/ \E y \in Years, m \in MonthArgs : CallMarkMonth(y, m)
    \/ \E y \in Years : CallMarkYear(y)
    \/ KillTracker
    \/ Construct

SpecTrackerIO == Init /\ [][NextTrackerIO]_vars

(**************************** main(): start ********************************)
\* The unit the month loop is at.
Month == months[month_idx]
Unit == <<year, Month>>

\* Local variables and observers of a process that has just been started.
Fresh(a) ==
    /\ args' = a
    /\ runs' = runs + 1
    /\ month_idx' = 1
    /\ year_total_cases' = 0
    /\ month_cases' = 0
    /\ links' = 0
    /\ cand' = 1
    /\ interruptedAt' = "none"
    /\ crawled' = {}
    /\ errored' = {}
    /\ listing' = "none"
    /\ monthStartFile' = file
    /\ attempts' = <<>>

\* What a restart with --resume finds recorded when the process before it
\* was interrupted inside a year of the same range: the interrupted year,
\* its months recorded complete, and the completed years. (The variables
\* still hold the locals of the process that exited.)
ResumeOf(a, p) ==
    IF a.resume /\ pc = "exited" /\ interruptedAt \in InYearPcs
       /\ args.start_year = a.start_year /\ args.end_year = a.end_year
    THEN [year |-> year,
          recorded |-> {m \in Range(months) : is_month_complete(p, year, m)},
          done |-> Range(p.completed_years)]
    ELSE NoResume

\* python batch_scraper.py --start-year s --end-year e [--resume]:
\* main() from its first line to the head of the year loop.
Start(s, e, r) ==
    LET a == [start_year |-> s, end_year |-> e, resume |-> r]
        p == load_progress(file)
        rp == get_resume_point(p, s, e)
    IN /\ pc \in {"idle", "exited"}
       /\ ~load_raises(file)
       /\ Fresh(a)
       /\ progress' = p
       /\ resumed' = ResumeOf(a, p)
       /\ IF r
          THEN IF rp[1] # None
               THEN /\ start_year' = rp[1]
                    /\ start_month' = rp[2]
                    /\ year' = rp[1]
                    /\ pc' = "year"
                    /\ exitStatus' = ExitOK
               ELSE \* "All years already completed!"
                    /\ pc' = "exited"
                    /\ exitStatus' = ExitOK
                    /\ UNCHANGED <<start_year, start_month, year>>
          ELSE /\ start_year' = s
               /\ start_month' = IF s = FirstYear THEN "august" ELSE "january"
               /\ year' = s
               /\ pc' = "year"
               /\ exitStatus' = ExitOK
       /\ UNCHANGED <<file, disk, marked, lastCall, before, repeated, faults, recVars, toolVars>>

\* python batch_scraper.py --reset
Reset ==
    /\ pc \in {"idle", "exited"}
    /\ ~load_raises(file)
    /\ Fresh(args)
    /\ progress' = save_progress(EmptyProgress)
    /\ file' = <<progress'>>
    /\ marked' = {}
    /\ pc' = "exited"
    /\ exitStatus' = ExitOK
    /\ resumed' = NoResume
    /\ UNCHANGED <<disk, start_year, start_month, year, lastCall, before,
                   repeated, faults, recVars, toolVars>>

\* python batch_scraper.py --status
Status ==
    /\ pc \in {"idle", "exited"}
    /\ ~load_raises(file)
    /\ Fresh(args)
    /\ progress' = load_progress(file)
    /\ pc' = "exited"
    /\ exitStatus' = ExitOK
    /\ resumed' = NoResume
    /\ UNCHANGED <<file, disk, marked, start_year, start_month, year,
                   lastCall, before, repeated, faults, recVars, toolVars>>

\* Line 100 with a progress file json.load cannot parse, whatever the
\* command line (--status and --reset are looked at after it).
LoadFails ==
    /\ pc \in {"idle", "exited"}
    /\ load_raises(file)
    /\ Fresh(args)
    /\ OnCorruptFile
    /\ resumed' = NoResume
    /\ UNCHANGED <<file, disk, marked, start_year, start_month, year,
                   lastCall, before, repeated, faults, recVars, toolVars>>

(************************* main(): the year loop ***************************)
\* Mutant: the year loop without the test of lines 172-174.
YearStep_no_skip ==
    /\ pc = "year"
    /\ IF year > args.end_year
       THEN /\ pc' = "exited"
            /\ exitStatus' = ExitOK
            /\ UNCHANGED <<year, month_idx, year_total_cases>>
       ELSE /\ month_idx' = IF year = start_year
                            THEN MonthIndex(start_month) ELSE 1
            /\ year_total_cases' = 0
            /\ pc' = "month"
            /\ UNCHANGED <<year, exitStatus>>
    /\ UNCHANGED <<progress, file, disk, args, start_year, start_month,
                   month_cases, links, cand, runs, interruptedAt, crawled,
                   errored, listing, monthStartFile, marked, lastCall,
                   before, repeated, resumed, attempts, faults, recVars, toolVars>>

\* Lines 171-190: the head of the year loop.
YearStep ==
    /\ pc = "year"
    /\ IF year > args.end_year
       THEN \* "Batch Scraping Complete", return 0
            /\ pc' = "exited"
            /\ exitStatus' = ExitOK
            /\ UNCHANGED <<year, month_idx, year_total_cases>>
       ELSE IF is_year_complete(progress, year)
       THEN /\ year' = year + 1
            /\ UNCHANGED <<pc, exitStatus, month_idx, year_total_cases>>
       ELSE /\ month_idx' = IF year = start_year
                            THEN MonthIndex(start_month) ELSE 1
            /\ year_total_cases' = 0
            /\ pc' = "month"
            /\ UNCHANGED <<year, exitStatus>>
    /\ UNCHANGED <<progress, file, disk, args, start_year, start_month,
                   month_cases, links, cand, runs, interruptedAt, crawled,
                   errored, listing, monthStartFile, marked, lastCall,
                   before, repeated, resumed, attempts, faults, recVars, toolVars>>

\* Mutant: the month loop skipping a completed month without lines 194-195.
MonthStep_skip_uncounted ==
    /\ pc = "month"
    /\ IF month_idx > MonthEnd
       THEN /\ pc' = "yeardone"
            /\ UNCHANGED <<month_idx, crawled, monthStartFile>>
       ELSE IF is_month_complete(progress, year, Month)
       THEN /\ month_idx' = month_idx + 1
            /\ UNCHANGED <<pc, crawled, monthStartFile>>
       ELSE /\ pc' = "listing"
            /\ crawled' = crawled \cup {Unit}
            /\ monthStartFile' = file
            /\ UNCHANGED month_idx
    /\ UNCHANGED <<progress, file, disk, args, start_year, start_month, year,
                   month_cases, links, cand, exitStatus, runs, interruptedAt,
                   errored, listing, marked, lastCall, before, repeated,
                   resumed, attempts, faults, year_total_cases,
                   recVars, toolVars>>

\* Lines 191-198: the head of the month loop.
MonthStep ==
    /\ pc = "month"
    /\ IF month_idx > MonthEnd
       THEN /\ pc' = "yeardone"
            /\ UNCHANGED <<month_idx, year_total_cases, crawled,
                           monthStartFile>>
       ELSE IF is_month_complete(progress, year, Month)
       THEN /\ year_total_cases' =
                  year_total_cases + count_cases_in_directory(disk, year, Month)
            /\ month_idx' = month_idx + 1
            /\ UNCHANGED <<pc, crawled, monthStartFile>>
       ELSE \* enter the try block and call scraper.scrape_year
            /\ pc' = "listing"
            /\ crawled' = crawled \cup {Unit}
            /\ monthStartFile' = file
            /\ UNCHANGED <<month_idx, year_total_cases>>
    /\ UNCHANGED <<progress, file, disk, args, start_year, start_month, year,
                   month_cases, links, cand, exitStatus, runs, interruptedAt,
                   errored, listing, marked, lastCall, before, repeated,
                   resumed, attempts, faults, recVars, toolVars>>

\* Line 223: tracker.mark_year_complete(year), then the next year.
YearDone ==
    /\ pc = "yeardone"
    /\ progress' = mark_year_complete(progress, year)
    /\ file' = <<progress'>>
    /\ marked' = {}
    /\ year' = year + 1
    /\ pc' = "year"
    /\ UNCHANGED <<disk, args, start_year, start_month, month_idx,
                   year_total_cases, month_cases, links, cand, exitStatus,
                   runs, interruptedAt, crawled, errored, listing,
                   monthStartFile, lastCall, before, repeated,
                   resumed, attempts, faults, recVars, toolVars>>

(******************** scrape_year(year, month, month) **********************)
\* scraper.py 322-333: fetch the month's listing page. A failed fetch
\* (fetch_page returns None) ends the month loop of scrape_year, which then
\* returns normally; so does a listing without candidate links.
FetchListing ==
    /\ pc = "listing"
    /\ \E ok \in BOOLEAN :
          /\ listing' = IF ok THEN "ok" ELSE "failed"
          /\ links' = IF ok THEN SiteLinks(year, Month) ELSE 0
          /\ cand' = 1
          /\ pc' = IF ok /\ SiteLinks(year, Month) > 0 THEN "case" ELSE "count"
    /\ UNCHANGED <<progress, file, disk, args, start_year, start_month, year,
                   month_idx, year_total_cases, month_cases, exitStatus, runs,
                   interruptedAt, crawled, errored, monthStartFile, marked,
                   lastCall, before, repeated, resumed, attempts, faults, recVars, toolVars>>

\* Mutant: main() without the except Exception clause of lines 218-220.
OnCrawlError_aborts ==
    /\ errored' = errored \cup {Unit}
    /\ pc' = "exited"
    /\ listing' = "none"
    /\ attempts' = <<>>
    /\ UNCHANGED <<disk, cand, month_idx>>

\* What the except clause of main() (lines 218-220) does with an error
\* raised by the month's crawl: report it and go on to the next month.
OnCrawlError ==
    /\ errored' = errored \cup {Unit}
    /\ month_idx' = month_idx + 1
    /\ pc' = "month"
    /\ listing' = "none"
    /\ attempts' = <<>>
    /\ UNCHANGED <<disk, cand>>

\* What can become of one candidate: parse_case's fetch of the detail page
\* fails and the case is skipped ("fetch_failed"); the page is fetched and
\* save_case writes the record ("saved"); the page is fetched and the write
\* fails, which save_case reports and swallows (scraper.py 306-308:
\* "unwritten"); or an error escapes scrape_year (mkdir at scraper.py 297 is
\* outside save_case's try: "raised").
CaseOutcomes == {"fetch_failed", "saved", "unwritten", "raised"}

\* scraper.py 336-343: one candidate of the listing.
ProcessCase ==
    /\ pc = "case"
    /\ \E outcome \in CaseOutcomes :
          IF outcome = "raised"
          THEN OnCrawlError
          ELSE /\ disk' = IF outcome = "saved"
                          THEN disk \cup {<<year, Month, cand>>} ELSE disk
               /\ attempts' = Append(attempts, <<cand, outcome>>)
               /\ cand' = cand + 1
               /\ pc' = IF cand < links THEN "case" ELSE "count"
               /\ UNCHANGED <<errored, month_idx, listing>>
    /\ UNCHANGED <<progress, file, args, start_year, start_month, year,
                   year_total_cases, month_cases, links, exitStatus, runs,
                   interruptedAt, crawled, monthStartFile, marked, lastCall,
                   before, repeated, resumed, faults, recVars, toolVars>>

(******************* main(): after the month's crawl ***********************)
\* Mutant: the month's count taken as the number of candidates attempted.
CountAndMark_counts_attempts ==
    /\ pc = "count"
    /\ month_cases' = Len(attempts)
    /\ year_total_cases' = year_total_cases + month_cases'
    /\ progress' = mark_month_complete(progress, year, Month)
    /\ file' = <<progress'>>
    /\ marked' = marked \cup {Unit}
    /\ pc' = "addtotal"
    /\ UNCHANGED <<disk, args, start_year, start_month, year, month_idx,
                   links, cand, exitStatus, runs, interruptedAt, crawled,
                   errored, listing, monthStartFile, lastCall, before,
                   repeated, resumed, attempts, faults, recVars, toolVars>>

\* Lines 205-210: count the month's record files, mark the month complete.
CountAndMark ==
    /\ pc = "count"
    /\ month_cases' = count_cases_in_directory(disk, year, Month)
    /\ year_total_cases' = year_total_cases + month_cases'
    /\ progress' = mark_month_complete(progress, year, Month)
    /\ file' = <<progress'>>
    /\ marked' = marked \cup {Unit}
    /\ pc' = "addtotal"
    /\ UNCHANGED <<disk, args, start_year, start_month, year, month_idx,
                   links, cand, exitStatus, runs, interruptedAt, crawled,
                   errored, listing, monthStartFile, lastCall, before,
                   repeated, resumed, attempts, faults, recVars, toolVars>>

\* Lines 211-212: add the month's count to the total, save, next month.
AddTotal ==
    /\ pc = "addtotal"
    /\ progress' = save_progress(
          [progress EXCEPT !.total_cases_scraped = @ + month_cases])
    /\ file' = <<progress'>>
    /\ month_idx' = month_idx + 1
    /\ listing' = "none"
    /\ attempts' = <<>>
    /\ pc' = "month"
    /\ UNCHANGED <<disk, args, start_year, start_month, year,
                   year_total_cases, month_cases, links, cand, exitStatus,
                   runs, interruptedAt, crawled, errored, monthStartFile,
                   marked, lastCall, before, repeated, resumed, faults, recVars, toolVars>>

(***************************** SIGINT **************************************)
\* Mutant: main() without the except KeyboardInterrupt clause.
OnInterrupt_uncaught(at) ==
    /\ pc' = "exited"
    /\ exitStatus' \in CrashStatuses

\* What main() does with a KeyboardInterrupt raised at position at: inside
\* the try block the handler of lines 214-217 returns 0; anywhere else
\* nothing catches it and the interpreter dies.
OnInterrupt(at) ==
    IF at \in TryPcs
    THEN /\ pc' = "exited"
         /\ exitStatus' = ExitOK
    ELSE /\ pc' = "exited"
         /\ exitStatus' \in CrashStatuses

\* The user presses Ctrl+C while the controller runs.
Interrupt ==
    /\ pc \in RunningPcs
    /\ interruptedAt' = pc
    /\ OnInterrupt(pc)
    /\ UNCHANGED <<progress, file, disk, args, start_year, start_month, year,
                   month_idx, year_total_cases, month_cases, links, cand,
                   runs, crawled, errored, listing, monthStartFile, marked,
                   lastCall, before, repeated, resumed, attempts, faults, recVars, toolVars>>

(*********************** failed writes and kills ***************************)
\* pcs whose step ends in save_progress
SavePcs == {"count", "addtotal", "yeardone"}

\* tracker.progress once the step at pc has changed it, before the save.
Mutated ==
    CASE pc = "count" -> mark_month_complete(progress, year, Month)
      [] pc = "addtotal" ->
            save_progress(
               [progress EXCEPT !.total_cases_scraped = @ + month_cases])
      [] pc = "yeardone" -> mark_year_complete(progress, year)
      [] OTHER -> progress

\* save_progress raises OSError: open(path, 'w') fails and the file stays
\* as it was, or the write fails after open has emptied the file (torn).
\* Line 35 has stamped the state in memory before.
FailedWrite ==
    /\ faults < MaxFaults
    /\ faults' = faults + 1
    /\ progress' = Mutated
    /\ \E torn \in BOOLEAN : file' = IF torn THEN <<Truncated>> ELSE file
    /\ UNCHANGED <<recVars, toolVars>>

\* What the except clause of main() (lines 218-220) does with an error
\* raised inside the try block after the crawl: the same as with an error
\* of the crawl, report it and go on to the next month.
OnSaveError ==
    /\ month_idx' = month_idx + 1
    /\ pc' = "month"
    /\ listing' = "none"
    /\ attempts' = <<>>

\* Lines 205-210 when the save of mark_month_complete fails.
CountAndMarkWriteFails ==
    /\ pc = "count"
    /\ month_cases' = count_cases_in_directory(disk, year, Month)
    /\ year_total_cases' = year_total_cases + month_cases'
    /\ FailedWrite
    /\ marked' = marked \cup {Unit}
    /\ OnSaveError
    /\ UNCHANGED <<disk, args, start_year, start_month, year, links, cand,
                   exitStatus, runs, interruptedAt, crawled, errored,
                   monthStartFile, lastCall, before, repeated, resumed>>

\* Lines 211-212 when the save fails.
AddTotalWriteFails ==
    /\ pc = "addtotal"
    /\ FailedWrite
    /\ OnSaveError
    /\ UNCHANGED <<disk, args, start_year, start_month, year,
                   year_total_cases, month_cases, links, cand, exitStatus,
                   runs, interruptedAt, crawled, errored, monthStartFile,
                   marked, lastCall, before, repeated, resumed>>

\* Line 223 when the save of mark_year_complete fails: the call is outside
\* the try block, the error ends the process with a traceback.
YearDoneWriteFails ==
    /\ pc = "yeardone"
    /\ FailedWrite
    /\ marked' = {}
    /\ pc' = "exited"
    /\ exitStatus' \in Traceback
    /\ UNCHANGED <<disk, args, start_year, start_month, year, month_idx,
                   year_total_cases, month_cases, links, cand, runs,
                   interruptedAt, crawled, errored, listing, monthStartFile,
                   lastCall, before, repeated, resumed, attempts>>

\* The controller process is ended abruptly (SIGKILL, power loss). Inside
\* save_progress, between open(path, 'w') and the end of json.dump, that
\* leaves the file cut short (torn); anywhere else the file stays as the
\* last save left it.
Kill ==
    /\ pc \in RunningPcs
    /\ \E torn \in BOOLEAN :
          /\ torn => pc \in SavePcs
          /\ IF torn
             THEN progress' = Mutated /\ file' = <<Truncated>>
             ELSE UNCHANGED <<progress, file>>
    /\ pc' = "exited"
    /\ exitStatus' \in Killed
    /\ UNCHANGED <<disk, args, start_year, start_month, year, month_idx,
                   year_total_cases, month_cases, links, cand, runs,
                   interruptedAt, crawled, errored, listing, monthStartFile,
                   marked, lastCall, before, repeated, resumed, attempts,
                   faults, recVars, toolVars>>

\* At most MaxRuns processes.
Next ==
    \/ \E s \in Years, e \in Years, r \in BOOLEAN :
          s <= e /\ runs < MaxRuns /\ Start(s, e, r)
    \/ runs < MaxRuns /\ Reset
    \/ runs < MaxRuns /\ Status
    \/ YearStep
    \/ MonthStep
    \/ FetchListing
    \/ ProcessCase
    \/ CountAndMark
    \/ AddTotal
    \/ YearDone
    \/ Interrupt

Spec == Init /\ [][Next]_vars

\* At most MaxRuns + Restarts processes: interrupted runs and their restarts.
NextRestarts ==
    \/ \E s \in Years, e \in Years, r \in BOOLEAN :
          s <= e /\ runs < MaxRuns + Restarts /\ Start(s, e, r)
    \/ runs < MaxRuns + Restarts /\ Reset
    \/ runs < MaxRuns + Restarts /\ Status
    \/ YearStep
    \/ MonthStep
    \/ FetchListing
    \/ ProcessCase
    \/ CountAndMark
    \/ AddTotal
    \/ YearDone
    \/ Interrupt

SpecRestarts == Init /\ [][NextRestarts]_vars

\* A process and, once it has exited, the one started after it: a run that
\* completed or was interrupted, and the run that follows it.
NextResume ==
    \/ \E s \in Years, e \in Years, r \in BOOLEAN :
          s <= e /\ runs \in {0, 1} /\ Start(s, e, r)
    \/ runs \in {0, 1} /\ Reset
    \/ runs \in {0, 1} /\ Status
    \/ YearStep
    \/ MonthStep
    \/ FetchListing
    \/ ProcessCase
    \/ CountAndMark
    \/ AddTotal
    \/ YearDone
    \/ Interrupt

SpecResume == Init /\ [][NextResume]_vars

\* A process and the one started after it, with failed writes of the
\* progress file and abrupt ends of the process.
NextFaults ==
    \/ \E s \in Years, e \in Years, r \in BOOLEAN :
          s <= e /\ runs <= MaxRuns /\ Start(s, e, r)
    \/ runs <= MaxRuns /\ Reset
    \/ runs <= MaxRuns /\ Status
    \/ runs <= MaxRuns /\ LoadFails
    \/ YearStep
    \/ MonthStep
    \/ FetchListing
    \/ ProcessCase
    \/ CountAndMark
    \/ AddTotal
    \/ YearDone
    \/ Interrupt
    \/ CountAndMarkWriteFails
    \/ AddTotalWriteFails
    \/ YearDoneWriteFails
    \/ Kill

SpecFaults == Init /\ [][NextFaults]_vars

(***************************************************************************)
(*            Case Records: the builder and the validator                  *)
(***************************************************************************)
MaxNodes == 2          \* text nodes of a detail page
MaxNodeLen == 2        \* characters of a text node

\* The characters of the model's pages: a letter and the two kinds of
\* whitespace format_case_content tells apart.
Chars == {"a", " ", "\n"}
Whitespace == {" ", "\n"}

Strings(n) == UNION {[1..k -> Chars] : k \in 0..n}
\* A parsed page holds no empty text node.
TextNodes == Strings(MaxNodeLen) \ {<<>>}
Pages == UNION {[1..k -> TextNodes] : k \in 0..MaxNodes}

\* sep.join(parts)
RECURSIVE Join(_, _)
Join(parts, sep) ==
    IF parts = <<>> THEN <<>>
    ELSE IF Len(parts) = 1 THEN parts[1]
    ELSE parts[1] \o sep \o Join(Tail(parts), sep)

\* s.split(c) for a character c: the pieces between its occurrences
RECURSIVE split(_, _)
split(s, c) ==
    IF \A i \in DOMAIN s : s[i] # c THEN <<s>>
    ELSE LET i == CHOOSE j \in DOMAIN s :
                     s[j] = c /\ \A k \in 1..(j - 1) : s[k] # c
         IN <<SubSeq(s, 1, i - 1)>> \o split(SubSeq(s, i + 1, Len(s)), c)

RECURSIVE lstrip(_)
lstrip(s) ==
    IF s # <<>> /\ Head(s) \in Whitespace THEN lstrip(Tail(s)) ELSE s

RECURSIVE rstrip(_)
rstrip(s) ==
    IF s # <<>> /\ s[Len(s)] \in Whitespace
    THEN rstrip(SubSeq(s, 1, Len(s) - 1)) ELSE s

\* s.strip()
strip(s) == rstrip(lstrip(s))

\* soup.get_text(separator): the text nodes of the page, joined
get_text(nodes, sep) == Join(nodes, sep)

\* scraper.py 278-287
format_case_content(nodes) ==
    LET content == get_text(nodes, <<"\n">>)
        kept == SelectSeq(split(content, "\n"),
                          LAMBDA line : strip(line) # <<>>)
        lines == [i \in DOMAIN kept |-> strip(kept[i])]
    IN Join(lines, <<"\n", "\n">>)

(****************************** JSON values ********************************)
\* A value of a record document: its type, its characters or elements (for
\* a string or a list), its number (for an integer).
JNull == [t |-> "null", s |-> <<>>, n |-> 0]
JStr(s) == [t |-> "str", s |-> s, n |-> 0]
JInt(n) == [t |-> "int", s |-> <<>>, n |-> n]
JList(s) == [t |-> "list", s |-> s, n |-> 0]

REQUIRED_FIELDS ==
    <<"file_path", "filename", "year", "month", "case_number", "gr_number",
      "volume_page", "decision_date", "title", "categories", "keywords",
      "title_summary", "formatted_case_content", "content_length",
      "metadata_extraction_date", "extraction_version">>

NULLABLE_FIELDS == {"division", "decision_date"}

VALID_MONTHS ==
    Range(months)
       \cup {"01", "02", "03", "04", "05", "06", "07", "08", "09", "10",
             "11", "12"}
       \cup {"1", "2", "3", "4", "5", "6", "7", "8", "9"}

\* The keys of the dictionary parse_case builds (scraper.py 256-274).
RecordFields == Range(REQUIRED_FIELDS) \cup {"division"}

(******************************* the builder *******************************)
\* extract_title's fallback, as characters, and the keywords it gives:
\* not is a stop word.
TitleNotFound ==
    <<"T", "i", "t", "l", "e", " ", "n", "o", "t", " ", "f", "o", "u", "n",
      "d">>

TitleWords == << <<"t", "i", "t", "l", "e">>, <<"f", "o", "u", "n", "d">> >>

UpperCase ==
    <<"A", "B", "C", "D", "E", "F", "G", "H", "I", "J", "K", "L", "M",
      "N", "O", "P", "Q", "R", "S", "T", "U", "V", "W", "X", "Y", "Z">>

LowerCase ==
    <<"a", "b", "c", "d", "e", "f", "g", "h", "i", "j", "k", "l", "m",
      "n", "o", "p", "q", "r", "s", "t", "u", "v", "w", "x", "y", "z">>

\* [a-z]
Letters == Range(LowerCase)

\* The other characters of \w the model has.
OtherWordChars == {"1", "_"}

\* s.lower()
lower(s) ==
    [i \in DOMAIN s |->
        IF \E j \in DOMAIN UpperCase : UpperCase[j] = s[i]
        THEN LowerCase[CHOOSE j \in DOMAIN UpperCase : UpperCase[j] = s[i]]
        ELSE s[i]]

stop_words ==
    {<<"t", "h", "e">>, <<"a", "n", "d">>, <<"o", "r">>, <<"b", "u", "t">>,
     <<"i", "n">>, <<"o", "n">>, <<"a", "t">>, <<"t", "o">>,
     <<"f", "o", "r">>, <<"o", "f">>, <<"w", "i", "t", "h">>, <<"i", "s">>,
     <<"w", "a", "s">>, <<"a", "r", "e">>, <<"w", "e", "r", "e">>,
     <<"b", "e", "e", "n">>, <<"b", "e">>, <<"h", "a", "v", "e">>,
     <<"h", "a", "s">>, <<"h", "a", "d">>, <<"t", "h", "a", "t">>,
     <<"t", "h", "i", "s">>, <<"t", "h", "e", "s", "e">>,
     <<"t", "h", "o", "s", "e">>, <<"f", "r", "o", "m">>, <<"b", "y">>,
     <<"n", "o", "t">>, <<"w", "h", "i", "c", "h">>,
     <<"s", "u", "c", "h">>, <<"a", "l", "l">>}

\* re.findall(r'\b[a-z]{3,}\b', s): the maximal runs of word characters
\* that are three letters or more and nothing else
RECURSIVE findall_words(_)
findall_words(s) ==
    IF s = <<>> THEN <<>>
    ELSE IF Head(s) \notin Letters \cup OtherWordChars
    THEN findall_words(Tail(s))
    ELSE LET n == CHOOSE k \in 1..Len(s) :
                     /\ \A i \in 1..k : s[i] \in Letters \cup OtherWordChars
                     /\ k = Len(s) \/ s[k + 1] \notin Letters \cup OtherWordChars
         IN (IF n >= 3 /\ \A i \in 1..n : s[i] \in Letters
             THEN <<SubSeq(s, 1, n)>> ELSE <<>>)
               \o findall_words(SubSeq(s, n + 1, Len(s)))

\* The keys of word_freq, in the order of their first occurrence
RECURSIVE Distinct(_)
Distinct(ws) ==
    IF ws = <<>> THEN <<>>
    ELSE LET rest == Distinct(SubSeq(ws, 1, Len(ws) - 1))
             w == ws[Len(ws)]
         IN IF \E i \in DOMAIN rest : rest[i] = w THEN rest
            ELSE Append(rest, w)

Count(w, ws) == Cardinality({i \in DOMAIN ws : ws[i] = w})

\* sorted(..., key=count, reverse=True): by falling count, words of equal
\* count in the order they had
RECURSIVE ByCount(_, _, _)
ByCount(keys, ws, c) ==
    IF c = 0 THEN <<>>
    ELSE SelectSeq(keys, LAMBDA w : Count(w, ws) = c)
            \o ByCount(keys, ws, c - 1)

MaxKeywords == 20

\* Lines 198-209: the words counted, in the order of the text
CountedWords(content, title) ==
    SelectSeq(findall_words(lower(title \o <<" ">> \o content)),
              LAMBDA w : w \notin stop_words)

\* Mutant: extract_keywords without the sort of line 213.
extract_keywords_unsorted(content, title) ==
    LET keys == Distinct(CountedWords(content, title))
    IN SubSeq(keys, 1, IF Len(keys) < MaxKeywords
                       THEN Len(keys) ELSE MaxKeywords)

\* scraper.py 196-214
extract_keywords(content, title) ==
    LET ws == CountedWords(content, title)
        sorted == ByCount(Distinct(ws), ws, Len(ws))
    IN SubSeq(sorted, 1, IF Len(sorted) < MaxKeywords
                         THEN Len(sorted) ELSE MaxKeywords)

\* The dictionary of scraper.py 256-274 with the given content_length.
\* The pages of the model match no pattern of the extractors, which gives
\* the fallback title, volume and date, no division and the category
\* General; texts whose characters play no part are held in one piece.
CaseData(nodes, y, m, kw, length) ==
    [f \in RecordFields |->
        CASE f = "year" -> JInt(y)
          [] f = "month" -> JStr(<<m>>)
          [] f = "volume_page" -> JStr(<<"Volume information not available">>)
          [] f = "decision_date" -> JStr(<<"Date not specified, year">>)
          [] f = "title" -> JStr(<<"Title not found">>)
          [] f = "title_summary" -> JStr(<<"Title not found">>)
          [] f = "division" -> JNull
          [] f = "categories" -> JList(<<"General">>)
          [] f = "keywords" -> JList(kw)
          [] f = "formatted_case_content" -> JStr(format_case_content(nodes))
          [] f = "content_length" -> JInt(length)
          [] OTHER -> JStr(<<f>>)]

\* Mutant: content_length taken from the raw text of line 225.
parse_case_raw_length(nodes, y, m) ==
    CaseData(nodes, y, m, extract_keywords(get_text(nodes, <<>>), TitleNotFound),
             Len(get_text(nodes, <<>>)))

\* scraper.py 216-276, for a page whose fetch succeeded.
parse_case(nodes, y, m) ==
    CaseData(nodes, y, m, extract_keywords(get_text(nodes, <<>>), TitleNotFound),
             Len(format_case_content(nodes)))

(****************************** the validator ******************************)
\* str(value).lower() of line 101, for the month values of the model.
MonthDigits ==
    <<"1", "2", "3", "4", "5", "6", "7", "8", "9", "10", "11", "12">>

MonthText(v) ==
    CASE v.t = "null" -> "none"
      [] v.t = "int" -> IF v.n \in DOMAIN MonthDigits
                        THEN MonthDigits[v.n] ELSE "other"
      [] v.t = "str" -> IF Len(v.s) = 1
                        THEN (IF v.s[1] = "August" THEN "august" ELSE v.s[1])
                        ELSE "other"
      [] OTHER -> "other"

\* Lines 64-67
MissingIssues(d) ==
    LET fs == SelectSeq(REQUIRED_FIELDS, LAMBDA f : f \notin DOMAIN d)
    IN [i \in DOMAIN fs |-> <<"Missing required field", fs[i]>>]

\* Lines 69-77
IsNullIssue(d, f) ==
    f \in DOMAIN d /\ d[f].t = "null" /\ f \notin NULLABLE_FIELDS

IsEmptyIssue(d, f) ==
    /\ f \in DOMAIN d
    /\ d[f].t # "null"
    /\ f \notin {"categories", "keywords"}
    /\ f \notin NULLABLE_FIELDS
    /\ d[f].t = "str"
    /\ strip(d[f].s) = <<>>

NullOrEmptyIssues(d) ==
    LET fs == SelectSeq(REQUIRED_FIELDS,
                        LAMBDA f : IsNullIssue(d, f) \/ IsEmptyIssue(d, f))
    IN [i \in DOMAIN fs |->
          IF IsNullIssue(d, fs[i])
          THEN <<"Field is null but should have a value", fs[i]>>
          ELSE <<"Field is empty", fs[i]>>]

\* Lines 79-90, for f = categories and f = keywords
ArrayIssues(d, f) ==
    IF f \notin DOMAIN d THEN <<>>
    ELSE IF d[f].t # "list" THEN << <<"Field must be an array", f>> >>
    ELSE IF Len(d[f].s) = 0 THEN << <<"Field is empty", f>> >>
    ELSE <<>>

\* Lines 92-97
YearIssues(d) ==
    IF "year" \notin DOMAIN d THEN <<>>
    ELSE IF d["year"].t # "int"
    THEN << <<"Field must be an integer", "year">> >>
    ELSE IF d["year"].n < 1900 \/ d["year"].n > 2100
    THEN << <<"Field has invalid value", "year">> >>
    ELSE <<>>

\* Lines 99-103
MonthIssues(d) ==
    IF "month" \notin DOMAIN d THEN <<>>
    ELSE IF MonthText(d["month"]) \notin VALID_MONTHS
    THEN << <<"Invalid month", "month">> >>
    ELSE <<>>

\* Line 107: len() raises TypeError on a value that has no length.
ContentLengthRaises(d) ==
    /\ {"content_length", "formatted_case_content"} \subseteq DOMAIN d
    /\ d["formatted_case_content"].t \notin {"str", "list"}

\* Mutant: validate_case without the comparison of lines 105-109.
ContentLengthIssues_unchecked(d) == <<>>

\* Lines 105-109: the issue holds the declared value and the actual length.
ContentLengthIssues(d) ==
    IF {"content_length", "formatted_case_content"} \subseteq DOMAIN d
    THEN LET actual == Len(d["formatted_case_content"].s)
             declared == d["content_length"]
         IN IF declared.t # "int" \/ declared.n # actual
            THEN << <<"content_length mismatch", declared, actual>> >>
            ELSE <<>>
    ELSE <<>>

\* Lines 111-116: f"{year}/{month}" in str(case_path), for a file at
\* <root>/<at[1]>/<at[2]>/<name>.json. For the values of the model the text
\* is found in the path when the year is the directory's year, or the empty
\* string, and the month is the directory's month, or the empty string.
LocationIssues(d, at) ==
    IF {"year", "month"} \subseteq DOMAIN d
    THEN LET y == d["year"]
             m == d["month"]
             found ==
                /\ \/ y.t = "int" /\ y.n = at[1]
                   \/ y.t = "str" /\ y.s = <<>>
                /\ m.t = "str"
                /\ m.s = <<>> \/ m.s = <<at[2]>>
         IN IF found THEN <<>>
            ELSE << <<"File location doesn't match year/month", "path">> >>
    ELSE <<>>

\* validate_cases.py 51-118 for the record file r: what it returns, or that
\* it raised.
validate_case(r) ==
    LET d == r.doc
        issues == MissingIssues(d) \o NullOrEmptyIssues(d)
                     \o ArrayIssues(d, "categories")
                     \o ArrayIssues(d, "keywords")
                     \o YearIssues(d) \o MonthIssues(d)
                     \o ContentLengthIssues(d) \o LocationIssues(d, r.at)
    IN IF ~r.json
       THEN [raised |-> FALSE, valid |-> FALSE,
             issues |-> << <<"Invalid JSON", "file">> >>]
       ELSE IF ContentLengthRaises(d)
       THEN [raised |-> TRUE, valid |-> FALSE, issues |-> <<>>]
       ELSE [raised |-> FALSE, valid |-> (Len(issues) = 0),
             issues |-> issues]

(*************************** record files on disk **************************)
\* Ways a record file can differ from what the builder writes: a key
\* dropped, or its value replaced by null, "", " ", [], "x" or 0; the month
\* capitalised.
EditKinds == {"drop", "null", "empty", "blank", "empty_list", "text", "zero"}

Edits ==
    {<<"keep", "year">>, <<"capital", "month">>}
       \cup (EditKinds \X RecordFields)

Edited(d, e) ==
    CASE e[1] = "keep" -> d
      [] e[1] = "drop" -> [f \in DOMAIN d \ {e[2]} |-> d[f]]
      [] e[1] = "null" -> [d EXCEPT ![e[2]] = JNull]
      [] e[1] = "empty" -> [d EXCEPT ![e[2]] = JStr(<<>>)]
      [] e[1] = "blank" -> [d EXCEPT ![e[2]] = JStr(<<" ">>)]
      [] e[1] = "empty_list" -> [d EXCEPT ![e[2]] = JList(<<>>)]
      [] e[1] = "text" -> [d EXCEPT ![e[2]] = JStr(<<"x">>)]
      [] e[1] = "zero" -> [d EXCEPT ![e[2]] = JInt(0)]
      [] e[1] = "capital" -> [d EXCEPT ![e[2]] = JStr(<<"August">>)]

\* A record of august of the first year with the given content and declared
\* content_length.
Document(content, declared) ==
    [CaseData(<<>>, FirstYear, "august", TitleWords, declared)
        EXCEPT !["formatted_case_content"] = JStr(content)]

\* The record of the spec's example: declared 100, actual 87.
ExampleDocument == Document([i \in 1..87 |-> "a"], 100)

\* Records with two defects: a key dropped and the content null or a number.
TwiceEdited ==
    {Edited(Edited(Document(<<"a">>, 1), <<"drop", f>>),
            <<k, "formatted_case_content">>) :
        f \in RecordFields \ {"formatted_case_content"},
        k \in {"null", "zero"}}

Documents ==
    {Edited(Document(c, n), e) :
        c \in Strings(MaxNodeLen), n \in 0..(MaxNodeLen + 1), e \in Edits}
       \cup TwiceEdited
       \cup {ExampleDocument}

\* The directories a record file of the model can lie in.
Places == {<<FirstYear, "august">>, <<FirstYear, "july">>}

crawlVars == <<progress, file, disk, pc, args, start_year, start_month, year,
               month_idx, year_total_cases, month_cases, links, cand,
               exitStatus, runs, interruptedAt, crawled, errored, listing,
               monthStartFile, marked, lastCall, before, repeated, resumed,
               attempts, faults>>

\* parse_case's fetch of a candidate's detail page succeeds.
FetchPage ==
    /\ page = <<>>
    /\ record = <<>>
    /\ \E p \in Pages : page' = <<p>>
    /\ UNCHANGED <<record, verdict, crawlVars, toolVars>>

\* scraper.py 338-341: parse_case builds the record of the page, save_case
\* writes it under <output_dir>/<year>/<month>.
Build ==
    /\ page # <<>>
    /\ record = <<>>
    /\ \E y \in Years, m \in BusyMonths :
          record' = <<[doc |-> parse_case(page[1], y, m),
                       at |-> <<y, m>>, built |-> TRUE, json |-> TRUE]>>
    /\ UNCHANGED <<page, verdict, crawlVars, toolVars>>

\* A record file that something else wrote or changed; it may be no JSON.
PutRecord ==
    /\ page = <<>>
    /\ record = <<>>
    /\ \E d \in Documents, at \in Places, json \in BOOLEAN :
          /\ ~json => (d = ExampleDocument /\ at = <<FirstYear, "august">>)
          /\ record' = <<[doc |-> d, at |-> at, built |-> FALSE,
                          json |-> json]>>
    /\ UNCHANGED <<page, verdict, crawlVars, toolVars>>

\* validate_directory calls validate_case on the record file.
Validate ==
    /\ record # <<>>
    /\ verdict = <<>>
    /\ verdict' = <<validate_case(record[1])>>
    /\ UNCHANGED <<page, record, crawlVars, toolVars>>

NextRecords ==
    \/ FetchPage
    \/ Build
    \/ PutRecord
    \/ Validate

SpecRecords == Init /\ [][NextRecords]_vars

(***************************************************************************)
(*                              Properties                                 *)
(***************************************************************************)
Completed == Range(progress.completed_years)

\* Ranges a caller may pass: a start year of the model and an end year up to
\* one past its last year, so that a range may hold a year never completed.
EndYears == FirstYear .. (FirstYear + NumYears)

NoDuplicates(s) == \A i, j \in DOMAIN s : s[i] = s[j] => i = j

StrictlyAscending(s) == \A i, j \in DOMAIN s : i < j => s[i] < s[j]

\* The smallest year of s..e that is not completed, with the first month;
\* the "nothing left" pair when there is none.
FirstIncomplete(s, e) ==
    LET open == {y \in s..e : y \notin Completed}
    IN IF open = {} THEN <<None, NoMonth>>
       ELSE <<CHOOSE y \in open : \A z \in open : y <= z, "january">>

\* C1: for every progress state and every range start_year <= end_year,
\* get_resume_point returns (y, 'january') with y the smallest year of the
\* range not in completed_years, and (None, None) exactly when every year of
\* the range is completed; completed_years = [1901, 1902] with the range
\* 1901..1995 gives (1903, 'january').
C1_ResumePointIsFirstIncomplete ==
    /\ \A s \in Years, e \in EndYears :
          s <= e =>
             /\ get_resume_point(progress, s, e) = FirstIncomplete(s, e)
             /\ (get_resume_point(progress, s, e) = <<None, NoMonth>>)
                   <=> (\A y \in s..e : y \in Completed)
    /\ progress.completed_years = <<FirstYear, FirstYear + 1>>
          => get_resume_point(progress, FirstYear, DefaultEndYear)
                = <<FirstYear + 2, "january">>

C1_Witness ==
    /\ progress.completed_years = <<FirstYear, FirstYear + 1>>
    /\ get_resume_point(progress, FirstYear, DefaultEndYear)
          = <<FirstYear + 2, "january">>

\* C2 as stated: for all y1 in completed_years and all y2 in
\* [start_year, end_year] with y2 <= y1, get_resume_point never returns y2.
C2_NeverAtOrBelowACompletedYear ==
    \A s \in Years, e \in EndYears, y1 \in Completed :
       \A y2 \in s..e :
          y2 <= y1 => get_resume_point(progress, s, e)[1] # y2

\* C2 as amended: get_resume_point never returns a year of the range that is
\* itself in completed_years; a year y2 of the range below a completed year
\* y1 but not itself completed is returned when every year of the range
\* before it is completed.
C2_NeverACompletedYear ==
    \A s \in Years, e \in EndYears :
       \A y2 \in s..e :
          /\ y2 \in Completed => get_resume_point(progress, s, e)[1] # y2
          /\ (y2 \notin Completed /\ \A z \in s..(y2 - 1) : z \in Completed)
                => get_resume_point(progress, s, e)[1] = y2

C2_Witness ==
    /\ progress.completed_years = <<FirstYear + 1>>
    /\ get_resume_point(progress, FirstYear, FirstYear + 1)
          = <<FirstYear, "january">>

\* C3: when the controller calls mark_year_complete(y), every month of the
\* year's iteration range (from the year's starting month to december) is
\* in completed_months for y.
C3_YearCompleteOnlyAfterAllMonths ==
    pc = "yeardone" =>
       \A i \in DOMAIN months :
          i >= (IF year = start_year THEN MonthIndex(start_month) ELSE 1)
             => is_month_complete(progress, year, months[i])

\* C4: when the fetch of a month's listing page fails, the month is not
\* marked complete: it is not added to completed_months and
\* is_month_complete stays false for it.
C4_FailedListingNotMarked ==
    (pc \in {"count", "addtotal"} /\ listing = "failed")
       => ~is_month_complete(progress, year, Month)

\* C5: is_month_complete(y, m) is true only if mark_month_complete(y, m) was
\* called for that same year y since the last mark_year_complete.
C5_MonthsOfCurrentYearOnly ==
    \A y \in Years, m \in Range(months) :
       is_month_complete(progress, y, m) => <<y, m>> \in marked

\* C6: mark_month_complete(year, month) is idempotent: a second call in a
\* row with the same arguments leaves completed_months as the first left it,
\* without a duplicate entry; after every call current_year = year and the
\* progress file equals the in-memory state.
C6_MarkMonthIdempotent ==
    lastCall[1] = "month" =>
       /\ repeated => progress.completed_months = before.completed_months
       /\ mark_month_complete(progress, lastCall[2], lastCall[3]) = progress
       /\ IsIn(lastCall[3], progress.completed_months)
       /\ NoDuplicates(progress.completed_months)
       /\ progress.current_year = lastCall[2]
       /\ file = <<progress>>

C6_Witness ==
    /\ lastCall[1] = "month"
    /\ repeated
    /\ Len(progress.completed_months) = 2

\* C7: mark_year_complete(year) is idempotent; after any sequence of calls
\* completed_years is strictly ascending (so without duplicates) and
\* contains year; each call sets current_year to None, empties
\* completed_months and writes the state to the progress file.
C7_MarkYearIdempotentSorted ==
    /\ StrictlyAscending(progress.completed_years)
    /\ lastCall[1] = "year" =>
          /\ repeated => progress = before
          /\ mark_year_complete(progress, lastCall[2]) = progress
          /\ IsIn(lastCall[2], progress.completed_years)
          /\ progress.current_year = None
          /\ progress.completed_months = <<>>
          /\ file = <<progress>>

C7_Witness ==
    /\ lastCall = <<"year", FirstYear, NoMonth>>
    /\ repeated
    /\ before.completed_years = <<FirstYear, FirstYear + 1>>

\* C8: an interrupt delivered while a month is being crawled leaves the
\* progress file exactly as it was before that month started (the month and
\* the year not marked complete, total_cases_scraped unchanged), no further
\* fetch is started, and the controller exits with status 0.
C8_InterruptDuringCrawl ==
    interruptedAt \in CrawlPcs =>
       /\ pc = "exited"
       /\ exitStatus = ExitOK
       /\ file = monthStartFile
       /\ ~is_month_complete(load_progress(file), year, Month)
       /\ ~is_year_complete(load_progress(file), year)
       /\ ~ENABLED (FetchListing \/ ProcessCase)

C8_Witness ==
    /\ interruptedAt = "case"
    /\ pc = "exited"
    /\ file # NoFile
    /\ load_progress(file).completed_months # <<>>

\* C9: an interrupt arriving between units of work (at the head of the year
\* loop, while a completed month or year is being skipped, while the year is
\* being marked complete) is caught and the controller exits with status 0.
C9_InterruptBetweenUnits ==
    interruptedAt \in {"year", "month", "yeardone"} =>
       pc = "exited" /\ exitStatus = ExitOK

\* C10: a controller restarted with --resume on the range of a run that was
\* interrupted partway through year Y resumes at year Y from january, crawls
\* no month recorded complete for Y, crawls every month of Y not recorded
\* complete, and crawls no year of completed_years.
C10_ResumeAfterInterrupt ==
    resumed.year # None =>
       /\ start_year = resumed.year
       /\ start_month = "january"
       /\ \A u \in crawled :
             /\ u[1] \notin resumed.done
             /\ u[1] = resumed.year => u[2] \notin resumed.recorded
       /\ (pc \in InYearPcs /\ year = resumed.year) =>
             \A i \in 1..(month_idx - 1) :
                months[i] \in resumed.recorded \/ <<year, months[i]>> \in crawled

\* Years and months of the year in progress that tracker.progress holds
\* complete and the progress file does not (a file cut short holds none).
LostYears ==
    {y \in Completed :
        load_raises(file) \/ ~is_year_complete(load_progress(file), y)}

LostMonths ==
    {m \in Range(progress.completed_months) :
        load_raises(file)
           \/ ~is_month_complete(load_progress(file), progress.current_year, m)}

\* C11: progress is flushed after every mutation, so that an abrupt end of
\* the process at any point loses at most one unit of work: as long as no
\* write has failed, the progress file holds every year and every month of
\* the year in progress that the process has marked complete, but for at
\* most the one mutation in flight.
C11_AtMostOneUnitLost ==
    faults = 0 => Cardinality(LostYears) + Cardinality(LostMonths) <= 1

\* C12: a failed write of the progress file or of a record file is fatal to
\* the unit of work: the controller is never at the head of the month or
\* year loop with a month complete in memory that the progress file does
\* not record, and a month with a record that could not be written is not
\* marked complete.
C12_WriteFailureIsFatal ==
    /\ pc \in {"month", "year"} => LostMonths = {}
    /\ pc = "addtotal" =>
          \A i \in DOMAIN attempts : attempts[i][2] # "unwritten"

\* C13: loading never fails on a missing progress file and then gives the
\* empty state; loading a file that exists and cannot be parsed ends the
\* process with an error and never gives the empty state in its place; any
\* other file gives its content.
C13_LoadMissingOrCorrupt ==
    lastCall[1] = "load" =>
       /\ file = NoFile => (pc = "idle" /\ progress = EmptyProgress)
       /\ load_raises(file) => (pc = "exited" /\ exitStatus # ExitOK)
       /\ (file # NoFile /\ ~load_raises(file)) =>
             (pc = "idle" /\ progress = file[1])

C13_Witness ==
    /\ lastCall[1] = "load"
    /\ load_raises(file)
    /\ pc = "exited"
    /\ exitStatus \in Traceback
    /\ before.completed_years # <<>>

\* C14: within a month a candidate whose detail page cannot be fetched is
\* skipped and does not abort the month: when the crawl of a fetched
\* listing returns, every candidate of the listing has been attempted once,
\* in document order, and every candidate whose fetch succeeded has its
\* record on disk, whatever failed before it.
C14_FailedFetchSkipsOneCase ==
    (pc = "count" /\ listing = "ok") =>
       /\ Len(attempts) = links
       /\ \A i \in DOMAIN attempts :
             /\ attempts[i][1] = i
             /\ attempts[i][2] # "fetch_failed" => <<year, Month, i>> \in disk

\* C15: a year already in completed_years is skipped entirely by the
\* controller: the year loop goes on to the next year, no listing or detail
\* page is fetched for it, no record file is written and the progress state
\* and file stay as they are.
C15_CompletedYearSkipped ==
    [][(/\ pc = "year"
        /\ year <= args.end_year
        /\ is_year_complete(progress, year)
        /\ pc' # "exited")
          => /\ pc' = "year"
             /\ year' = year + 1
             /\ UNCHANGED <<progress, file, disk, crawled, attempts, listing>>]_vars

C15_Witness ==
    /\ pc = "year"
    /\ ~args.resume
    /\ year = args.start_year + 1
    /\ is_year_complete(progress, args.start_year)
    /\ month_idx = 1
    /\ crawled = {}

\* C16: for a month already marked complete for the year being processed
\* the controller fetches nothing and changes neither completed_months nor
\* total_cases_scraped, but adds the number of record files on disk for
\* that month to the year total, and goes on to the next month.
C16_CompletedMonthSkipped ==
    [][(/\ pc = "month"
        /\ month_idx <= MonthEnd
        /\ is_month_complete(progress, year, Month)
        /\ pc' # "exited")
          => /\ pc' = "month"
             /\ month_idx' = month_idx + 1
             /\ year_total_cases' =
                   year_total_cases + count_cases_in_directory(disk, year, Month)
             /\ UNCHANGED <<progress, file, disk, crawled, attempts, listing>>]_vars

C16_Witness ==
    /\ pc = "month"
    /\ year = start_year
    /\ month_idx = MonthIndex(start_month) + 1
    /\ is_month_complete(progress, year, start_month)
    /\ <<year, start_month>> \notin crawled
    /\ year_total_cases = count_cases_in_directory(disk, year, start_month)
    /\ year_total_cases > 0

\* The month the month loop has just left.
PrevUnit == <<year, months[month_idx - 1]>>

\* C17: for each incomplete month the crawl of the month finishes first
\* (the month is not marked while it runs), then the month is marked
\* complete (total_cases_scraped still as the month found it), then
\* total_cases_scraped grows by exactly the number of record files in the
\* month's directory at that moment, files left by earlier partial runs
\* included, not by the number of cases attempted.
C17_CrawlThenMarkThenCount ==
    /\ pc \in {"listing", "case", "count"} =>
          ~is_month_complete(progress, year, Month)
    /\ pc = "addtotal" =>
          /\ Unit \in crawled
          /\ is_month_complete(progress, year, Month)
          /\ month_cases = count_cases_in_directory(disk, year, Month)
          /\ progress.total_cases_scraped =
                load_progress(monthStartFile).total_cases_scraped
    /\ (pc = "month" /\ month_idx > 1 /\ PrevUnit \in crawled \ errored) =>
          /\ is_month_complete(progress, PrevUnit[1], PrevUnit[2])
          /\ progress.total_cases_scraped =
                load_progress(monthStartFile).total_cases_scraped
                   + count_cases_in_directory(disk, PrevUnit[1], PrevUnit[2])
          /\ file = <<progress>>

\* The month is marked and its count taken; no candidate was fetched in this
\* run, the files counted were left by an earlier, interrupted run.
C17_Witness ==
    /\ pc = "addtotal"
    /\ is_month_complete(progress, year, Month)
    /\ attempts # <<>>
    /\ \A i \in DOMAIN attempts : attempts[i][2] = "fetch_failed"
    /\ month_cases > 0

\* C18: the batch does not abort on the failure of a single month: when a
\* month's crawl raises an error that is no interrupt, the month is not
\* marked complete, the progress state (total_cases_scraped included) and
\* file stay as the month found them, the controller goes on to the next
\* month in list order, and a run that was not interrupted ends only at
\* the end of its range, with status 0.
C18_MonthErrorDoesNotAbort ==
    /\ (pc = "month" /\ month_idx > 1 /\ PrevUnit \in errored) =>
          /\ ~is_month_complete(progress, PrevUnit[1], PrevUnit[2])
          /\ progress = load_progress(monthStartFile)
          /\ file = monthStartFile
    /\ (pc = "exited" /\ errored # {} /\ interruptedAt = "none") =>
          /\ exitStatus = ExitOK
          /\ year > args.end_year

C18_Witness ==
    /\ pc = "month"
    /\ month_idx > 1
    /\ PrevUnit \in errored
    /\ progress.completed_months # <<>>
    /\ file = <<progress>>


(************************* Case Record properties **************************)
\* The verdict reports a content_length mismatch.
Flagged(v) ==
    \E i \in DOMAIN v.issues : v.issues[i][1] = "content_length mismatch"

\* C19: every Case Record the builder produces from a fetched page has
\* content_length equal to the length of its formatted_case_content, which
\* is the formatted text of that page; the validator never reports a
\* content_length mismatch for such a record.
C19_ContentLengthIsLength ==
    (record # <<>> /\ record[1].built) =>
        LET d == record[1].doc
        IN /\ d["formatted_case_content"] = JStr(format_case_content(page[1]))
           /\ d["content_length"].t = "int"
           /\ d["content_length"].n = Len(d["formatted_case_content"].s)
           /\ verdict # <<>> => (~verdict[1].raised /\ ~Flagged(verdict[1]))

\* A built record whose formatted content is not empty and is shorter than
\* the page's raw text, validated.
C19_Witness ==
    /\ record # <<>>
    /\ record[1].built
    /\ verdict # <<>>
    /\ record[1].doc["content_length"].n > 0
    /\ record[1].doc["content_length"].n < Len(get_text(page[1], <<>>))

\* C20: validate_case reports a record valid exactly when its list of
\* issues is empty; for a record that has a content_length and a
\* formatted_case_content with a length, it returns, it reports a
\* content_length mismatch exactly when the declared value is not that
\* length, and a record with a mismatch is not valid.
C20_ValidIffNoIssueAndMismatchFlagged ==
    verdict # <<>> =>
        LET d == record[1].doc
            v == verdict[1]
        IN /\ ~v.raised => (v.valid <=> v.issues = <<>>)
           /\ ( /\ record[1].json
                /\ {"content_length", "formatted_case_content"}
                       \subseteq DOMAIN d
                /\ d["formatted_case_content"].t \in {"str", "list"} )
              => LET differs ==
                        d["content_length"]
                            # JInt(Len(d["formatted_case_content"].s))
                 IN /\ ~v.raised
                    /\ Flagged(v) <=> differs
                    /\ differs => ~v.valid

\* The record that declares 100 and holds 87 characters, in its own
\* directory: the mismatch is the one issue reported and it is not valid.
C20_Witness ==
    /\ verdict # <<>>
    /\ record[1].doc = ExampleDocument
    /\ record[1].json
    /\ record[1].at = <<FirstYear, "august">>
    /\ ~verdict[1].valid
    /\ verdict[1].issues = << <<"content_length mismatch", JInt(100), 87>> >>

\* The verdict holds the issue.
Reports(v, issue) == \E i \in DOMAIN v.issues : v.issues[i] = issue

\* C21: for every required field f, a record that lacks f is reported
\* invalid with the issue "Missing required field: f", and a record whose
\* categories is an empty list is reported invalid with the issue
\* "Field 'categories' is empty".
C21_MissingAndEmptyReported ==
    (verdict # <<>> /\ record[1].json) =>
        LET d == record[1].doc
            v == verdict[1]
        IN /\ \A f \in Range(REQUIRED_FIELDS) :
                 f \notin DOMAIN d =>
                    /\ ~v.raised
                    /\ ~v.valid
                    /\ Reports(v, <<"Missing required field", f>>)
           /\ ("categories" \in DOMAIN d /\ d["categories"] = JList(<<>>)) =>
                 /\ ~v.raised
                 /\ ~v.valid
                 /\ Reports(v, <<"Field is empty", "categories">>)

(***************************************************************************)
(*              Metadata Extractor: category tagging                       *)
(***************************************************************************)
NumSeeds == 3          \* string-hash seeds a process can start with

\* The keys of category_keywords, in the dictionary's order.
Categories ==
    <<"Civil Law", "Criminal Law", "Labor Law", "Commercial Law", "Tax Law",
      "Administrative Law", "Constitutional Law", "Family Law",
      "Property Law", "Remedial Law">>

category_keywords ==
    [c \in Range(Categories) |->
        CASE c = "Civil Law" ->
                {"civil", "contract", "property", "obligation", "tort",
                 "damages"}
          [] c = "Criminal Law" ->
                {"criminal", "murder", "homicide", "theft", "robbery",
                 "fraud"}
          [] c = "Labor Law" ->
                {"labor", "employment", "employee", "employer", "nlrc",
                 "worker"}
          [] c = "Commercial Law" ->
                {"commercial", "corporation", "partnership", "banking",
                 "insurance"}
          [] c = "Tax Law" ->
                {"tax", "taxation", "bir", "revenue", "customs"}
          [] c = "Administrative Law" ->
                {"administrative", "agency", "regulation", "license"}
          [] c = "Constitutional Law" ->
                {"constitutional", "constitution", "bill of rights",
                 "due process"}
          [] c = "Family Law" ->
                {"family", "marriage", "divorce", "adoption", "custody"}
          [] c = "Property Law" ->
                {"land", "real property", "title", "ownership", "possession"}
          [] c = "Remedial Law" ->
                {"procedure", "jurisdiction", "appeal", "certiorari",
                 "mandamus"}]

\* The words a text of the model is made of: for each category one that
\* holds a keyword of it, and one that holds none.
Vocabulary ==
    {"Civil", "murder", "labor", "banking", "taxation", "agency",
     "constitutional", "family", "Islands", "appeal", "court"}

\* The category keywords that are substrings of the lower-cased word.
KeywordsIn(w) ==
    CASE w = "Civil" -> {"civil"}
      [] w = "taxation" -> {"tax", "taxation"}
      [] w = "constitutional" -> {"constitutional", "constitution"}
      [] w = "Islands" -> {"land"}
      [] w = "court" -> {}
      [] OTHER -> {w}

\* A text is given by the words that occur in it.
Texts == SUBSET Vocabulary

\* keyword in content_lower
Occurs(keyword, text) == \E w \in text : keyword \in KeywordsIn(w)

Seeds == 0..(NumSeeds - 1)

\* The order in which a process whose string hashes are seeded with seed
\* iterates over a set of tags: the seeds of the model rotate one order.
AllTags == Categories \o <<"General">>

HashOrder(seed) ==
    [i \in DOMAIN AllTags |->
        AllTags[((i - 1 + seed) % Len(AllTags)) + 1]]

\* list(set(tags)) in a process seeded with seed
ListOfSet(tags, seed) ==
    SelectSeq(HashOrder(seed), LAMBDA c : c \in Range(tags))

MaxCategories == 6

\* Mutant: categorize_case without the slice of line 194.
categorize_case_uncapped(text, seed) ==
    LET categories ==
           SelectSeq(Categories,
                     LAMBDA c : \E k \in category_keywords[c] : Occurs(k, text))
    IN ListOfSet(IF categories = <<>> THEN <<"General">> ELSE categories,
                 seed)

\* scraper.py 168-194, in a process seeded with seed
categorize_case(text, seed) ==
    LET categories ==
           SelectSeq(Categories,
                     LAMBDA c : \E k \in category_keywords[c] : Occurs(k, text))
        withDefault ==
           IF categories = <<>> THEN <<"General">> ELSE categories
        listed == ListOfSet(withDefault, seed)
    IN SubSeq(listed, 1, IF Len(listed) < MaxCategories
                         THEN Len(listed) ELSE MaxCategories)

\* The text of a detail page reaches the extractor.
GiveText ==
    /\ input = <<>>
    /\ output = <<>>
    /\ \E t \in Texts : input' = <<t>>
    /\ UNCHANGED <<output, crawlVars, recVars>>

\* A process tags the text (parse_case, line 267); a second process tags
\* the same text again.
RunCategorize ==
    /\ input # <<>>
    /\ Len(output) < 2
    /\ \E seed \in Seeds :
          output' = Append(output,
                           [seed |-> seed,
                            categories |-> categorize_case(input[1], seed)])
    /\ UNCHANGED <<input, crawlVars, recVars>>

NextCategories ==
    \/ GiveText
    \/ RunCategorize

SpecCategories == Init /\ [][NextCategories]_vars

\* The categories with a keyword in the text.
Matched(text) ==
    {c \in Range(Categories) :
        \E k \in category_keywords[c] : Occurs(k, text)}

\* C22: for every text the tags are a non-empty list without duplicates of
\* at most 6 tags; they are exactly General when no category keyword occurs
\* in the text, and otherwise matched categories only, never General.
C22_CategoriesTotalAndBounded ==
    \A i \in DOMAIN output :
        LET r == output[i].categories
        IN /\ Len(r) >= 1
           /\ Len(r) <= 6
           /\ \A j, k \in DOMAIN r : r[j] = r[k] => j = k
           /\ Matched(input[1]) = {} => r = <<"General">>
           /\ Matched(input[1]) # {} =>
                 Range(r) \subseteq Matched(input[1])

\* A text that matches more than 6 categories was tagged with 6 of them.
C22_Witness ==
    /\ output # <<>>
    /\ Cardinality(Matched(input[1])) > 6
    /\ Len(output[1].categories) = 6

\* C23: two runs on the same text return the same categories; when the
\* text matches more than 6 categories, both runs return the same 6.
C23_CategoriesDeterministic ==
    Len(output) = 2 =>
        Range(output[1].categories) = Range(output[2].categories)

(***************************************************************************)
(*              Metadata Extractor: keyword extraction                     *)
(***************************************************************************)
MaxWords == 22         \* different words at the head of a content
MaxExtras == 2         \* further tokens after them

\* Three-letter words over x, y, z: none is a stop word.
XYZ == <<"x", "y", "z">>

Word(i) ==
    <<XYZ[(((i - 1) \div 9) % 3) + 1], XYZ[(((i - 1) \div 3) % 3) + 1],
      XYZ[((i - 1) % 3) + 1]>>

\* Tokens that follow the different words: a word seen before, once in
\* capitals, a stop word in both cases, a word of two letters, a word
\* with a digit.
ExtraTokens ==
    {Word(1), Word(MaxWords), <<"X", "X", "X">>, <<"t", "h", "e">>,
     <<"T", "h", "e">>, <<"n", "o">>, <<"x", "x", "x", "1">>}

ExtraSeqs == UNION {[1..k -> ExtraTokens] : k \in 0..MaxExtras}

KeywordTitles ==
    {<<>>, TitleNotFound,
     Word(MaxWords) \o <<" ", "v", "s", " ">> \o Word(2)}

KeywordInputs ==
    {[content |-> Join([i \in 1..n |-> Word(i)] \o extra, <<" ">>),
      title |-> t] :
        n \in 0..MaxWords, extra \in ExtraSeqs, t \in KeywordTitles}

\* parse_case has the text and the title of a page (lines 225, 234).
GiveWords ==
    /\ input = <<>>
    /\ output = <<>>
    /\ \E i \in KeywordInputs : input' = <<i>>
    /\ UNCHANGED <<output, crawlVars, recVars>>

\* parse_case, line 268
RunKeywords ==
    /\ input # <<>>
    /\ output = <<>>
    /\ output' = <<extract_keywords(input[1].content, input[1].title)>>
    /\ UNCHANGED <<input, crawlVars, recVars>>

NextKeywords ==
    \/ GiveWords
    \/ RunKeywords

SpecKeywords == Init /\ [][NextKeywords]_vars

\* The tokens of the title-then-body text, in its order.
Tokens ==
    findall_words(lower(input[1].title \o <<" ">> \o input[1].content))

\* How often each token occurs, and where it occurs first.
Freq(toks) == [w \in Range(toks) |-> Count(w, toks)]

First(toks) ==
    [w \in Range(toks) |->
        CHOOSE i \in DOMAIN toks :
            toks[i] = w /\ \A j \in 1..(i - 1) : toks[j] # w]

\* C24: the keywords are at most 20 tokens of the text, none a stop word,
\* none shorter than 3 letters, in the order of falling frequency and, at
\* equal frequency, of first occurrence in the title-then-body text; a
\* token that is no stop word is left out only when 20 were returned, and
\* then it is no more frequent than any of them.
C24_KeywordsTopTwenty ==
    output # <<>> =>
        LET r == output[1]
            toks == Tokens
            freq == Freq(toks)
            first == First(toks)
            kept == Range(r)
        IN /\ Len(r) <= 20
           /\ \A i \in DOMAIN r :
                 /\ r[i] \notin stop_words
                 /\ Len(r[i]) >= 3
                 /\ \A j \in DOMAIN r[i] : r[i][j] \in Letters
                 /\ r[i] \in Range(toks)
           /\ \A i, j \in DOMAIN r :
                 i < j =>
                    \/ freq[r[i]] > freq[r[j]]
                    \/ freq[r[i]] = freq[r[j]] /\ first[r[i]] < first[r[j]]
           /\ \A w \in Range(toks) :
                 (w \notin stop_words /\ w \notin kept) =>
                    /\ Len(r) = 20
                    /\ \A i \in DOMAIN r : freq[w] <= freq[r[i]]

\* 20 keywords returned and a token left out; the first keyword is there
\* by its frequency, it occurs first after the second one.
C24_Witness ==
    /\ output # <<>>
    /\ Len(output[1]) = 20
    /\ \E w \in Range(Tokens) :
          w \notin stop_words /\ w \notin Range(output[1])
    /\ Freq(Tokens)[output[1][1]] > Freq(Tokens)[output[1][2]]
    /\ First(Tokens)[output[1][1]] > First(Tokens)[output[1][2]]

(***************************************************************************)
(*              Case Record Builder: the record's file name                *)
(***************************************************************************)
MaxNameLen == 3        \* characters of a link's file name, without .html

\* Characters of a link's file name: ASCII letters, a digit, the two
\* characters the pattern names, a dot, a space, a letter outside ASCII.
NameChars == {"G", "r", "7", "_", "-", ".", " ", "ñ"}

\* \w of a str pattern: the letters and digits of Unicode and the underscore
WordCharacters == {"G", "r", "7", "_", "ñ"}

\* [A-Za-z0-9_-]
AsciiClass == {"G", "r", "7", "_", "-"}

\* What extract_case_number finds in a text that names the case.
MatchedNumber == <<"G", ".", "r", ".", " ", "N", "o", ".", " ", "7">>

DotHtml == <<".", "h", "t", "m", "l">>

DotJson == <<".", "j", "s", "o", "n">>

\* s.replace(old, new)
RECURSIVE replace(_, _, _)
replace(s, old, new) ==
    IF Len(s) < Len(old) THEN s
    ELSE IF SubSeq(s, 1, Len(old)) = old
    THEN new \o replace(SubSeq(s, Len(old) + 1, Len(s)), old, new)
    ELSE <<Head(s)>> \o replace(Tail(s), old, new)

\* Line 242: re.sub(r'[^\w\-_]', '_', case_number)
safe_filename(case_number) ==
    [i \in DOMAIN case_number |->
        IF case_number[i] \in WordCharacters \cup {"-", "_"}
        THEN case_number[i] ELSE "_"]

\* Lines 227-232: the number found in the text, or the link's file name.
case_number_of(found, url_name) ==
    IF found # <<>> THEN found[1] ELSE replace(url_name, DotHtml, <<>>)

\* save_case, lines 291-300: the path of the record file, part by part.
json_path(root, case_data) ==
    <<root, case_data.year, case_data.month,
      replace(case_data.filename, DotHtml, DotJson)>>

NameInputs ==
    {[found |-> f, url_name |-> n \o DotHtml, year |-> y, month |-> m] :
        f \in {<<>>, <<MatchedNumber>>},
        n \in UNION {[1..k -> NameChars] : k \in 0..MaxNameLen},
        y \in Years, m \in BusyMonths}

\* scrape_year takes a link of the listing of (year, month), line 338.
GiveLink ==
    /\ input = <<>>
    /\ output = <<>>
    /\ \E i \in NameInputs : input' = <<i>>
    /\ UNCHANGED <<output, crawlVars, recVars>>

\* parse_case names the record, save_case writes it (lines 338-341).
RunSave ==
    /\ input # <<>>
    /\ output = <<>>
    /\ LET case_number ==
              case_number_of(input[1].found, input[1].url_name)
           case_data ==
              [case_number |-> case_number,
               filename |-> safe_filename(case_number) \o DotHtml,
               year |-> input[1].year, month |-> input[1].month]
       IN output' = <<[case_data |-> case_data,
                       path |-> json_path("output_dir", case_data)]>>
    /\ UNCHANGED <<input, crawlVars, recVars>>

NextNames ==
    \/ GiveLink
    \/ RunSave

SpecNames == Init /\ [][NextNames]_vars

\* C25: the safe file name has the length of the case number, keeps its
\* characters of [A-Za-z0-9_-] and has '_' in the place of every other
\* one; the record of a case crawled in (year, month) is written to
\* {output_root}/{year}/{month}/{safe file name}.json.
C25_SafeFilenameAndPath ==
    output # <<>> =>
        LET cn == output[1].case_data.case_number
            safe == SubSeq(output[1].case_data.filename, 1,
                           Len(output[1].case_data.filename) - Len(DotHtml))
        IN /\ Len(safe) = Len(cn)
           /\ \A i \in DOMAIN cn :
                 safe[i] = IF cn[i] \in AsciiClass THEN cn[i] ELSE "_"
           /\ output[1].path =
                 <<"output_dir", input[1].year, input[1].month,
                   safe \o DotJson>>

(***************************************************************************)
(*              Title repair: extract_title of fix_titles.py               *)
(***************************************************************************)
MaxTail == 2           \* characters of a title after its stem

\* In a record's content the two texts the pattern of line 11 looks for
\* are held in one piece each; the rest is characters.
Bracket == "[G.R. No. 1]"
Decision == "D E C I S I O N"

\* title.split(): the runs of characters that are no whitespace
RECURSIVE split_ws(_)
split_ws(s) ==
    IF s = <<>> THEN <<>>
    ELSE IF Head(s) \in Whitespace THEN split_ws(Tail(s))
    ELSE LET n == CHOOSE k \in 1..Len(s) :
                     /\ \A i \in 1..k : s[i] \notin Whitespace
                     /\ k = Len(s) \/ s[k + 1] \in Whitespace
         IN <<SubSeq(s, 1, n)>> \o split_ws(SubSeq(s, n + 1, Len(s)))

MinRepeated == 20
SummaryLen == 100

\* re.search of line 11: the pattern matches from the last bracketed
\* number that a decision heading follows; group 1 is what lies between
\* it and the next heading, without the whitespace around it.
HasMatch(content) ==
    \E b, d \in DOMAIN content :
        b < d /\ content[b] = Bracket /\ content[d] = Decision

group1(content) ==
    LET b == CHOOSE i \in DOMAIN content :
                /\ content[i] = Bracket
                /\ \E d \in (i + 1)..Len(content) : content[d] = Decision
                /\ \A j \in (i + 1)..Len(content) :
                      content[j] = Bracket =>
                         \A d \in (j + 1)..Len(content) :
                            content[d] # Decision
        d == CHOOSE i \in (b + 1)..Len(content) :
                /\ content[i] = Decision
                /\ \A j \in (b + 1)..(i - 1) : content[j] # Decision
    IN strip(SubSeq(content, b + 1, d - 1))

summary_of(title) ==
    IF Len(title) > SummaryLen
    THEN SubSeq(title, 1, SummaryLen) \o <<".", ".", ".">>
    ELSE title

\* Mutant: extract_title without the check of lines 22-25.
extract_title_keeps_repeat(content) ==
    IF HasMatch(content)
    THEN LET title == Join(split_ws(strip(group1(content))), <<" ">>)
         IN <<title, summary_of(title)>>
    ELSE <<<<>>, <<>>>>

\* fix_titles.py 9-31. Group 1 holds no decision heading, so the split of
\* line 15 gives one part and lines 16-17 are never run.
extract_title(content) ==
    IF HasMatch(content)
    THEN LET joined == Join(split_ws(strip(group1(content))), <<" ">>)
             half_len == Len(joined) \div 2
             first == strip(SubSeq(joined, 1, half_len))
             second == strip(SubSeq(joined, half_len + 1, Len(joined)))
             title == IF Len(joined) > MinRepeated /\ first = second
                      THEN first ELSE joined
         IN <<title, summary_of(title)>>
    ELSE <<<<>>, <<>>>>

\* Whitespace-normalized titles: a stem and a tail.
Stem == <<"S", "M", "I", "T", "H", " ", "v", "s", ".">>

Tails ==
    {t \in UNION {[1..k -> {"a", "b", " "}] : k \in 0..MaxTail} :
        /\ t # <<>> => t[Len(t)] # " "
        /\ \A i \in 1..(Len(t) - 1) : ~(t[i] = " " /\ t[i + 1] = " ")}
       \cup {<<" ", "J", "O", "N", "E", "S">>}

Titles == {Stem \o t : t \in Tails}

\* What stands between the two renderings of a title.
Separators == {<<>>, <<" ">>, <<"\n">>, <<" ", "\n", " ">>}

TitleContents ==
    {<<"x", Bracket, "\n">> \o t1 \o sep \o t2 \o <<"\n", Decision, "x">> :
        t1 \in Titles, t2 \in Titles, sep \in Separators}
       \cup {t \o <<Decision>> : t \in Titles}

\* process_file has the content of a record without title (line 47).
GiveContent ==
    /\ input = <<>>
    /\ output = <<>>
    /\ \E c \in TitleContents : input' = <<c>>
    /\ UNCHANGED <<output, crawlVars, recVars>>

\* process_file, line 49
RunExtractTitle ==
    /\ input # <<>>
    /\ output = <<>>
    /\ output' = <<extract_title(input[1])>>
    /\ UNCHANGED <<input, crawlVars, recVars>>

NextTitleRepair ==
    \/ GiveContent
    \/ RunExtractTitle

SpecTitleRepair == Init /\ [][NextTitleRepair]_vars

\* The span between the bracketed number and the decision heading of the
\* contents of the model that have both.
SpanOf(content) == SubSeq(content, 3, Len(content) - 2)

\* C26: when the span, whitespace-normalized, is a whitespace-normalized
\* title T, a space and T again, and is longer than 20, the title returned
\* is T; when the two halves of the normalized span, split at the midpoint
\* and stripped, are not equal, the normalized span is returned unchanged.
C26_RepeatedTitleRepaired ==
    (output # <<>> /\ HasMatch(input[1])) =>
        LET span == Join(split_ws(SpanOf(input[1])), <<" ">>)
            half == Len(span) \div 2
        IN /\ \A T \in Titles :
                 (span = T \o <<" ">> \o T /\ Len(span) > 20) =>
                    output[1][1] = T
           /\ strip(SubSeq(span, 1, half))
                 # strip(SubSeq(span, half + 1, Len(span)))
              => output[1][1] = span

\* The title of the example, rendered twice, was repaired.
C26_Witness ==
    /\ output # <<>>
    /\ HasMatch(input[1])
    /\ Join(split_ws(SpanOf(input[1])), <<" ">>)
          = Stem \o <<" ", "J", "O", "N", "E", "S", " ">>
               \o Stem \o <<" ", "J", "O", "N", "E", "S">>
    /\ output[1][1] = Stem \o <<" ", "J", "O", "N", "E", "S">>

(***************************************************************************)
(*              Title repair: the pass of fix_titles.py                    *)
(***************************************************************************)
MaxFiles == 2          \* record files of the year the pass is run on

\* A file of the year's directories: what its text is (nothing, '{}', no
\* JSON, a JSON array, a JSON object), the object's keys and values, and
\* how its text is written: as save_case writes it, with the characters
\* outside ASCII as they are, or as json.dump writes it by default, with
\* them escaped.
OtherFile(text) == [text |-> text, doc |-> <<>>, form |-> "utf8"]

ObjectFile(doc, form) == [text |-> "object", doc |-> doc, form |-> form]

RepairTitle == Stem \o <<" ", "a">>

FixTitleValues == {JNull, JStr(<<>>), JStr(<<" ">>), JStr(<<"x">>)}

FixContentValues ==
    {JNull, JStr(<<>>), JInt(5), JStr(<<"x">>),
     JStr(<<Bracket>> \o RepairTitle \o <<" ">> \o RepairTitle
             \o <<Decision>>),
     JStr(<<Bracket>> \o RepairTitle \o <<Decision>>),
     JStr(<<Bracket, " ", Decision>>)}

FixDocs ==
    LET full == {[k \in {"year", "title", "title_summary",
                         "formatted_case_content"} |->
                     CASE k = "year" -> JInt(FirstYear)
                       [] k = "title" -> t
                       [] k = "title_summary" -> JStr(<<>>)
                       [] k = "formatted_case_content" -> c] :
                    t \in FixTitleValues, c \in FixContentValues}
    IN full
          \cup {[k \in DOMAIN d \ {"title", "title_summary"} |-> d[k]] :
                   d \in full}
          \cup {[k \in DOMAIN d \ {"formatted_case_content"} |-> d[k]] :
                   d \in full}

FixFiles ==
    {OtherFile(t) : t \in {"", "{}", "no json", "array"}}
       \cup {ObjectFile(d, f) : d \in FixDocs, f \in {"utf8", "escaped"}}

\* not value
Falsy(v) ==
    \/ v.t = "null"
    \/ v.t \in {"str", "list"} /\ v.s = <<>>
    \/ v.t = "int" /\ v.n = 0

\* Lines 51-56: the object with the two keys set, written by json.dump
Patched(f, extracted) ==
    ObjectFile([k \in DOMAIN f.doc \cup {"title", "title_summary"} |->
                   CASE k = "title" -> JStr(extracted[1])
                     [] k = "title_summary" -> JStr(extracted[2])
                     [] OTHER -> f.doc[k]],
               "escaped")

\* Mutant: process_file without the test of line 45.
process_file_any_title(f) ==
    IF f.text # "object" THEN [file |-> f, raised |-> f.text = "array"]
    ELSE IF "formatted_case_content" \in DOMAIN f.doc
            /\ f.doc["formatted_case_content"].t = "str"
            /\ extract_title(f.doc["formatted_case_content"].s)[1] # <<>>
    THEN [file |-> Patched(f, extract_title(
                                  f.doc["formatted_case_content"].s)),
          raised |-> FALSE]
    ELSE [file |-> f, raised |-> FALSE]

\* fix_titles.py 33-65: the file it leaves, and whether it raised. On a
\* JSON array data.get raises AttributeError; on a content that is no
\* string re.search raises TypeError; neither is caught.
process_file(f) ==
    IF f.text \in {"", "{}", "no json"}
    THEN [file |-> f, raised |-> FALSE]
    ELSE IF f.text = "array"
    THEN [file |-> f, raised |-> TRUE]
    ELSE IF "title" \in DOMAIN f.doc /\ ~Falsy(f.doc["title"])
    THEN [file |-> f, raised |-> FALSE]
    ELSE IF "formatted_case_content" \notin DOMAIN f.doc
            \/ Falsy(f.doc["formatted_case_content"])
    THEN [file |-> f, raised |-> FALSE]
    ELSE IF f.doc["formatted_case_content"].t # "str"
    THEN [file |-> f, raised |-> TRUE]
    ELSE LET extracted == extract_title(f.doc["formatted_case_content"].s)
         IN IF extracted[1] # <<>>
            THEN [file |-> Patched(f, extracted), raised |-> FALSE]
            ELSE [file |-> f, raised |-> FALSE]

\* main, lines 72-80: the files one after the other; an exception ends
\* the pass.
RECURSIVE fix_titles(_)
fix_titles(files) ==
    IF files = <<>> THEN [files |-> <<>>, raised |-> FALSE]
    ELSE LET r == process_file(Head(files))
         IN IF r.raised
            THEN [files |-> <<r.file>> \o Tail(files), raised |-> TRUE]
            ELSE LET rest == fix_titles(Tail(files))
                 IN [files |-> <<r.file>> \o rest.files,
                     raised |-> rest.raised]

\* The record files of a year, as the crawl or anything else left them.
GiveFiles ==
    /\ input = <<>>
    /\ output = <<>>
    /\ \E n \in 1..MaxFiles : \E fs \in [1..n -> FixFiles] : input' = <<fs>>
    /\ UNCHANGED <<output, crawlVars, recVars>>

\* python3 fix_titles.py <year>, a first and a second time
RunFixTitles ==
    /\ input # <<>>
    /\ Len(output) < 2
    /\ output' = Append(output,
                        fix_titles(IF output = <<>> THEN input[1]
                                   ELSE output[Len(output)].files))
    /\ UNCHANGED <<input, crawlVars, recVars>>

NextFixTitles ==
    \/ GiveFiles
    \/ RunFixTitles

SpecFixTitles == Init /\ [][NextFixTitles]_vars

\* The record has no title, a null one or an empty one.
EmptyTitle(doc) ==
    \/ "title" \notin DOMAIN doc
    \/ doc["title"] = JNull
    \/ doc["title"] = JStr(<<>>)

\* C27: the pass deletes no file; it changes a file only when the
\* record's title was empty, and then the record differs in title and
\* title_summary only; a file whose record has a title that is not empty
\* is left as it was, text included; a second pass changes nothing.
C27_RepairChangesOnlyEmptyTitles ==
    output # <<>> =>
        /\ \A p \in DOMAIN output : Len(output[p].files) = Len(input[1])
        /\ \A i \in DOMAIN input[1] :
              LET a == input[1][i]
                  b == output[1].files[i]
              IN /\ b # a =>
                       /\ a.text = "object"
                       /\ EmptyTitle(a.doc)
                       /\ b.text = "object"
                       /\ DOMAIN b.doc
                             = DOMAIN a.doc \cup {"title", "title_summary"}
                       /\ \A k \in DOMAIN a.doc \ {"title", "title_summary"} :
                             b.doc[k] = a.doc[k]
                 /\ (a.text = "object" /\ ~EmptyTitle(a.doc)) => b = a
        /\ Len(output) = 2 => output[2].files = output[1].files

\* Two passes done; the first gave a record without title the title of
\* its content and rewrote its text.
C27_Witness ==
    /\ Len(output) = 2
    /\ \E i \in DOMAIN input[1] :
          /\ input[1][i].text = "object"
          /\ input[1][i].form = "utf8"
          /\ "title" \notin DOMAIN input[1][i].doc
          /\ output[1].files[i].form = "escaped"
          /\ output[1].files[i].doc["title"] = JStr(RepairTitle)

(***************************************************************************)
(*              The validation command: main of validate_cases.py          *)
(***************************************************************************)
MaxRecords == 2        \* record files under the directory

ExitInvalid == 1

\* Record files of the directory: a valid one, one with a wrong
\* content_length, one whose content is null, one that is no JSON, each in
\* the directory of the first year or of the next.
CommandFiles ==
    {[doc |-> d, at |-> <<y, "august">>, built |-> FALSE, json |-> j] :
        d \in {Document(<<"a">>, 1), ExampleDocument,
               Edited(Document(<<"a">>, 1),
                      <<"null", "formatted_case_content">>)},
        y \in {FirstYear, FirstYear + 1}, j \in BOOLEAN}

CommandInputs ==
    {[exists |-> e, files |-> fs, start_year |-> sy, end_year |-> ey] :
        e \in BOOLEAN,
        fs \in UNION {[1..n -> CommandFiles] : n \in 0..MaxRecords},
        sy \in {None, FirstYear, FirstYear + 1},
        ey \in {None, FirstYear}}

\* Lines 153-158: the file's year is outside the range asked for.
OutOfRange(f, sy, ey) ==
    \/ sy # None /\ f.at[1] < sy
    \/ ey # None /\ f.at[1] > ey

\* validate_directory, lines 144-189: the counts after the files, or that
\* validate_case raised on one of them.
RECURSIVE validate_directory(_, _, _, _)
validate_directory(files, sy, ey, results) ==
    IF files = <<>> THEN results
    ELSE IF OutOfRange(Head(files), sy, ey)
    THEN validate_directory(Tail(files), sy, ey, results)
    ELSE LET v == validate_case(Head(files))
             counted == [results EXCEPT !.total_cases = @ + 1]
         IN IF v.raised THEN [counted EXCEPT !.raised = TRUE]
            ELSE IF v.valid
            THEN validate_directory(Tail(files), sy, ey,
                    [counted EXCEPT !.valid_cases = @ + 1])
            ELSE validate_directory(Tail(files), sy, ey,
                    [counted EXCEPT !.invalid_cases = @ + 1])

\* print_summary, lines 199-200: the percentages divide by total_cases.
SummaryRaises(results) == results.total_cases = 0

\* main, lines 219-247: the exit status of the command and the counts it
\* reached. An exception that is not caught ends Python with a traceback.
validate_command(i) ==
    LET results ==
           validate_directory(i.files, i.start_year, i.end_year,
                              [total_cases |-> 0, valid_cases |-> 0,
                               invalid_cases |-> 0, raised |-> FALSE])
    IN IF ~i.exists
       THEN {[exit |-> ExitInvalid, invalid_cases |-> 0, summary |-> FALSE]}
       ELSE IF results.raised \/ SummaryRaises(results)
       THEN {[exit |-> e, invalid_cases |-> results.invalid_cases,
              summary |-> FALSE] : e \in Traceback}
       ELSE {[exit |-> IF results.invalid_cases > 0
                       THEN ExitInvalid ELSE ExitOK,
              invalid_cases |-> results.invalid_cases, summary |-> TRUE]}

\* A directory of record files and the command line.
GiveDirectory ==
    /\ input = <<>>
    /\ output = <<>>
    /\ \E i \in CommandInputs :
          /\ ~i.exists => (i.files = <<>> /\ i.start_year = None
                             /\ i.end_year = None)
          /\ input' = <<i>>
    /\ UNCHANGED <<output, crawlVars, recVars>>

\* python validate_cases.py --directory ... runs to its exit.
RunValidate ==
    /\ input # <<>>
    /\ output = <<>>
    /\ \E o \in validate_command(input[1]) : output' = <<o>>
    /\ UNCHANGED <<input, crawlVars, recVars>>

NextValidate ==
    \/ GiveDirectory
    \/ RunValidate

SpecValidate == Init /\ [][NextValidate]_vars

\* C28: for every set of record files under the directory, the empty one
\* included, the command exits with 0 when it found no invalid record and
\* with 1 when it found one.
C28_ExitZeroIffNoneInvalid ==
    (output # <<>> /\ input[1].exists) =>
        /\ output[1].exit \in {0, 1}
        /\ output[1].exit = 0 <=> output[1].invalid_cases = 0

(***************************************************************************)
(*              Index Builder: update_case_index of update_index.py        *)
(***************************************************************************)
MaxIndexFiles == 2     \* JSON files under the directory

\* File names without .json, in the order sorted() gives them.
FileStems == <<"G_R__No__1", "G_R__No__2", "case_index">>

\* Lines 26-29: the name holds index, report, progress or validation.
IsFilteredName(stem) == stem = "case_index"

\* A JSON file under the directory: where it lies, and what is in it: an
\* object with or without a year, an array, or no JSON.
IndexContents ==
    {[kind |-> "object", doc |-> [year |-> JInt(FirstYear)]],
     [kind |-> "object", doc |-> <<>>],
     [kind |-> "array", doc |-> <<>>],
     [kind |-> "no json", doc |-> <<>>]}

IndexFiles ==
    {[year |-> y, month |-> "august", stem |-> FileStems[n], content |-> c] :
        y \in {FirstYear, FirstYear + 1}, n \in DOMAIN FileStems,
        c \in IndexContents}

\* The place of a path in the sorted list of paths.
PathRank(f) ==
    (f.year - FirstYear) * Len(FileStems)
       + (CHOOSE n \in DOMAIN FileStems : FileStems[n] = f.stem)

\* sorted(case_files) before the filter: different paths, in order
Directories ==
    {fs \in UNION {[1..n -> IndexFiles] : n \in 0..MaxIndexFiles} :
        \A a, b \in DOMAIN fs : a < b => PathRank(fs[a]) < PathRank(fs[b])}

\* An entry of the index, as an earlier rebuild wrote it.
OldEntry(stem) ==
    [case_id |-> stem, year |-> JInt(FirstYear),
     file_path |-> <<"old", stem>>]

\* The index file: missing, or an object keyed by stem.
OldIndexes ==
    {<<>>, << <<>> >>,
     <<[k \in {"G_R__No__1"} |-> OldEntry(k)]>>,
     <<[k \in {"G_R__No__1", "G_R__No__3"} |-> OldEntry(k)]>>}

\* Lines 39-52: the file is passed over: no part of its path is a
\* four-digit year inside the range.
Skipped(f, sy, ey) ==
    \/ sy # None /\ f.year < sy
    \/ ey # None /\ f.year > ey

\* Lines 60-76
index_entry(f) ==
    [case_id |-> f.stem,
     year |-> IF "year" \in DOMAIN f.content.doc
              THEN f.content.doc["year"] ELSE JNull,
     file_path |-> <<f.year, f.month, f.stem>>]

\* Lines 36-84: the scan, from the state st of the index and the counts
RECURSIVE scan(_, _, _, _)
scan(files, sy, ey, st) ==
    IF files = <<>> THEN st
    ELSE LET f == Head(files)
         IN IF IsFilteredName(f.stem) \/ Skipped(f, sy, ey)
            THEN scan(Tail(files), sy, ey, st)
            ELSE IF f.content.kind # "object"
            THEN scan(Tail(files), sy, ey,
                      [st EXCEPT !.errors = Append(@, f)])
            ELSE scan(Tail(files), sy, ey,
                      [st EXCEPT
                         !.updated_cases =
                            IF f.stem \in DOMAIN st.index THEN @ + 1 ELSE @,
                         !.new_cases =
                            IF f.stem \in DOMAIN st.index THEN @ ELSE @ + 1,
                         !.index =
                            [k \in DOMAIN @ \cup {f.stem} |->
                                IF k = f.stem THEN index_entry(f)
                                ELSE @[k]]])

\* Mutant: update_case_index that never loads the index file.
update_case_index_from_scratch(i) ==
    scan(i.files, i.start_year, i.end_year,
         [index |-> <<>>, new_cases |-> 0, updated_cases |-> 0,
          errors |-> <<>>])

\* update_index.py 12-93: the index it saves, the counts it prints and
\* the files it reported an error for.
update_case_index(i) ==
    scan(i.files, i.start_year, i.end_year,
         [index |-> IF i.index = <<>> THEN <<>> ELSE i.index[1],
          new_cases |-> 0, updated_cases |-> 0, errors |-> <<>>])

IndexInputs ==
    {[files |-> fs, index |-> ix, start_year |-> sy, end_year |-> ey] :
        fs \in Directories, ix \in OldIndexes,
        sy \in {None, FirstYear + 1}, ey \in {None, FirstYear}}

\* The directory, the index file and the command line.
GiveIndexInput ==
    /\ input = <<>>
    /\ output = <<>>
    /\ \E i \in IndexInputs : input' = <<i>>
    /\ UNCHANGED <<output, crawlVars, recVars>>

\* python update_index.py runs to its end.
RunUpdateIndex ==
    /\ input # <<>>
    /\ output = <<>>
    /\ output' = <<update_case_index(input[1])>>
    /\ UNCHANGED <<input, crawlVars, recVars>>

NextIndex ==
    \/ GiveIndexInput
    \/ RunUpdateIndex

SpecIndex == Init /\ [][NextIndex]_vars

\* The record files of the directory that are in the range asked for.
InRangeRecords ==
    {n \in DOMAIN input[1].files :
        LET f == input[1].files[n]
        IN /\ ~IsFilteredName(f.stem)
           /\ input[1].start_year # None => f.year >= input[1].start_year
           /\ input[1].end_year # None => f.year <= input[1].end_year}

Readable == {n \in InRangeRecords : input[1].files[n].content.kind = "object"}

\* C29: after a rebuild the stem of every readable record file in range
\* is a key of the index; the entries the index had are still there, and
\* unchanged when no file of their stem was read; the new and the updated
\* count add up to the number of record files read; every malformed record
\* file in range is reported, and the files after it are still indexed.
C29_IndexRebuildMerges ==
    output # <<>> =>
        LET old == IF input[1].index = <<>> THEN <<>> ELSE input[1].index[1]
            o == output[1]
        IN /\ \A n \in Readable : input[1].files[n].stem \in DOMAIN o.index
           /\ \A k \in DOMAIN old :
                 /\ k \in DOMAIN o.index
                 /\ (\A n \in Readable : input[1].files[n].stem # k)
                       => o.index[k] = old[k]
           /\ o.new_cases + o.updated_cases = Cardinality(Readable)
           /\ \A n \in InRangeRecords \ Readable :
                 \E e \in DOMAIN o.errors : o.errors[e] = input[1].files[n]

\* A malformed record file was reported and a file after it indexed, one
\* old entry was replaced and another kept.
C29_Witness ==
    /\ output # <<>>
    /\ output[1].errors # <<>>
    /\ \E n \in Readable, m \in InRangeRecords \ Readable : m < n
    /\ output[1].updated_cases > 0
    /\ "G_R__No__3" \in DOMAIN output[1].index

(***************************************************************************)
(*          The cumulative count against the record files on disk          *)
(***************************************************************************)

\* A process and the one started after it, with no --reset between them:
\* runs that complete or are interrupted, and the runs that follow them.
NextRuns ==
    \/ \E s \in Years, e \in Years, r \in BOOLEAN :
          s <= e /\ runs \in {0, 1} /\ Start(s, e, r)
    \/ runs \in {0, 1} /\ Status
    \/ YearStep
    \/ MonthStep
    \/ FetchListing
    \/ ProcessCase
    \/ CountAndMark
    \/ AddTotal
    \/ YearDone
    \/ Interrupt

SpecRuns == Init /\ [][NextRuns]_vars

\* C30: across controller runs, interrupts and resumes with no reset, the
\* on-disk count of a (year, month) unit is added to total_cases_scraped at
\* most once, so total_cases_scraped never exceeds the number of record
\* files on disk.
C30_TotalAtMostRecordFiles ==
    progress.total_cases_scraped <= Cardinality(disk)

(***************************************************************************)
(*                 A run that is not interrupted: its end                  *)
(***************************************************************************)

\* One statement of the running controller process.
Step ==
    \/ YearStep
    \/ MonthStep
    \/ FetchListing
    \/ ProcessCase
    \/ CountAndMark
    \/ AddTotal
    \/ YearDone

\* main() is one thread of straight-line loops over finite ranges and every
\* fetch has a timeout (scraper.py 73): a process that has a next statement
\* executes it.
FairRuns == SpecRuns /\ WF_vars(Step)

\* The step that leaves the year loop past end_year (lines 225-231).
Terminates == pc = "year" /\ pc' = "exited" /\ interruptedAt' = "none"

RangeCompleted ==
    \A y \in args.start_year .. args.end_year : is_year_complete(progress, y)

NothingInProgress ==
    progress.current_year = None /\ progress.completed_months = <<>>

\* The run took the 'continue' of line 174 for every year: it called the
\* tracker for nothing and wrote nothing.
LeftAsFound ==
    /\ crawled = {}
    /\ file = monthStartFile
    /\ progress = load_progress(file)

Earlier(v, u) ==
    \/ v[1] < u[1]
    \/ v[1] = u[1] /\ MonthIndex(v[2]) < MonthIndex(u[2])

\* Years are taken in ascending order, and a unit handed to scrape_year
\* comes after every unit handed to it before in the same process.
InOrder ==
    /\ pc \in RunningPcs => year' \in {year, year + 1}
    /\ \A u \in crawled' \ crawled : \A v \in crawled : Earlier(v, u)

\* C31: a controller run over [start_year, end_year] that is not interrupted
\* terminates; on termination every year of the range is in completed_years,
\* current_year is none and completed_months is empty; years are processed
\* in ascending order and the months of a year in calendar list order.
C31_RunCompletesRange ==
    /\ (pc \in RunningPcs) ~> (pc = "exited")
    /\ [][Terminates => (RangeCompleted /\ NothingInProgress)']_vars
    /\ [][InOrder]_vars

\* C31 (amended): the same, except that a run which found every year of its
\* range already complete ends with the progress state and the progress
\* file as it found them, whatever current_year and completed_months were.
C31_RunCompletesRangeOrLeavesAsFound ==
    /\ (pc \in RunningPcs) ~> (pc = "exited")
    /\ [][Terminates =>
            (RangeCompleted /\ (NothingInProgress \/ LeftAsFound))']_vars
    /\ [][InOrder]_vars

C31_Witness ==
    /\ pc = "exited"
    /\ interruptedAt = "none"
    /\ args.start_year < args.end_year
    /\ \E u \in crawled : u[1] = args.start_year
    /\ \E u \in crawled : u[1] = args.end_year
    /\ RangeCompleted
    /\ NothingInProgress

(***************************************************************************)
(*              What is never taken back: years and record files           *)
(***************************************************************************)

\* C32: in any sequence of controller runs other than an explicit reset,
\* completed_years only grows (a year once complete is never removed), and
\* the set of record files on disk only grows: no crawl, resume or reset
\* deletes a record file, and a case scraped again only overwrites the file
\* at its own path.
C32_YearsAndFilesOnlyGrow ==
    [][/\ disk \subseteq disk'
       /\ ~Reset => Range(progress.completed_years)
                       \subseteq Range(progress'.completed_years)]_vars

\* The second process has scraped again the one case whose record the first
\* process wrote and counted: the file at its path is written once more.
C32_Witness ==
    /\ runs = 2
    /\ pc = "count"
    /\ attempts # <<>>
    /\ attempts[1] = <<1, "saved">>
    /\ disk = {<<year, Month, 1>>}
    /\ progress.total_cases_scraped >= 1
    /\ progress.completed_years # <<>>

(***************************************************************************)
(*                 The builder's records before the validator              *)
(***************************************************************************)

\* C33: every record that parse_case builds and save_case writes is accepted
\* as valid by validate_case at the path it was written to, for every
\* fetched page (pages with nothing to extract included).
C33_BuiltRecordsAreValid ==
    (record # <<>> /\ verdict # <<>> /\ record[1].built)
       => (~verdict[1].raised /\ verdict[1].valid)

(***************************************************************************)
(*                     The index rebuilt from nothing                      *)
(***************************************************************************)

\* C34: after a rebuild from an empty index the index has exactly one entry
\* per record file read, the file_path of each entry names the file it was
\* built from, and record files of different (year, month) directories do
\* not share or overwrite an entry.
C34_OneEntryPerRecordFile ==
    (output # <<>> /\ input[1].index \in {<<>>, << <<>> >>}) =>
        LET o == output[1]
            files == input[1].files
        IN /\ Cardinality(DOMAIN o.index) = Cardinality(Readable)
           /\ \A n \in Readable :
                 o.index[files[n].stem].file_path
                    = <<files[n].year, files[n].month, files[n].stem>>

====
